---- MODULE Spec2Model ----
(***************************************************************************)
(* A model of the recipe generation service of kekohu426/meishi:           *)
(*   src/lib/validators/recipe.ts        the zod schema of a recipe         *)
(*   src/lib/ai/generate-recipe.ts       cleanAIResponse,                   *)
(*                                       normalizeRecipeData,               *)
(*                                       generateRecipe,                    *)
(*                                       generateRecipesBatch               *)
(*   src/app/api/ai/generate-recipe/route.ts   the POST handler             *)
(*                                                                         *)
(* JSON values are tagged records; a JSON object is a function from its    *)
(* keys to values, so an absent key is a key outside the DOMAIN.           *)
(***************************************************************************)
EXTENDS Integers, Sequences, FiniteSets, TLC

\* ------------------------------------------------------------------
\* JSON values, as JSON.parse produces them and the code reads them
\* ------------------------------------------------------------------

JUndef == [t |-> "undef"]
JNull == [t |-> "null"]
\* NaN is what parseInt/parseFloat give for non-numeric text
JNaN == [t |-> "nan"]
\* numbers are kept to two decimal places: the field n counts hundredths
Scale == 10 * 10
JNum(n) == [t |-> "num", n |-> n * Scale]
JDec(hundredths) == [t |-> "num", n |-> hundredths]
JBool(b) == [t |-> "bool", b |-> b]
JStr(s) == [t |-> "str", s |-> s]
JArr(a) == [t |-> "arr", a |-> a]
JObj(o) == [t |-> "obj", o |-> o]

\* v.key as JavaScript evaluates it on a value that is neither null nor
\* undefined: only objects carry the fields the code reads here
Get(v, key) ==
  IF v.t = "obj" /\ key \in DOMAIN v.o THEN v.o[key] ELSE JUndef

\* JSON object with one more (or one replaced) field
With(v, key, value) == JObj((key :> value) @@ v.o)

Without(v, key) == JObj([k \in (DOMAIN v.o) \ {key} |-> v.o[k]])

\* JavaScript truthiness
Truthy(v) ==
  CASE v.t = "undef" -> FALSE
    [] v.t = "null" -> FALSE
    [] v.t = "nan" -> FALSE
    [] v.t = "num" -> v.n # 0
    [] v.t = "str" -> v.s # ""
    [] v.t = "bool" -> v.b
    [] OTHER -> TRUE

\* a string of n characters
RECURSIVE Rep(_)
Rep(n) ==
  IF n = 0 THEN ""
  ELSE IF n % 2 = 0 THEN LET h == Rep(n \div 2) IN h \o h
  ELSE "x" \o Rep(n - 1)

RECURSIVE ConcatAll(_)
ConcatAll(ss) ==
  IF ss = <<>> THEN <<>> ELSE Head(ss) \o ConcatAll(Tail(ss))

\* the path element of the array index i (1-based here, 0-based in zod)
Idx(i) == ToString(i - 1)

\* ------------------------------------------------------------------
\* src/lib/validators/recipe.ts : the zod schema.  A validator maps a
\* value and its path to the sequence of issues zod reports, in order.
\* ------------------------------------------------------------------

Issue(path, message) == [path |-> path, message |-> message]

DifficultyEnum == {"easy", "medium", "hard"}

IconKeyEnum ==
  {"meat", "veg", "fruit", "seafood", "grain", "bean", "dairy", "egg",
   "spice", "sauce", "oil", "other"}

RatioEnum == {"16:9", "4:3", "3:2"}

\* z.string().min(lo, message)
ZStringMin(v, path, lo, message) ==
  CASE v.t = "undef" -> << Issue(path, "Required") >>
    [] v.t # "str" -> << Issue(path, "Expected string") >>
    [] Len(v.s) < lo -> << Issue(path, message) >>
    [] OTHER -> <<>>

\* z.string().optional()
ZStringOptional(v, path) ==
  CASE v.t = "undef" -> <<>>
    [] v.t # "str" -> << Issue(path, "Expected string") >>
    [] OTHER -> <<>>

\* z.number().positive(message)
ZNumberPositive(v, path, message) ==
  CASE v.t = "undef" -> << Issue(path, "Required") >>
    [] v.t # "num" -> << Issue(path, "Expected number") >>
    [] v.n <= 0 -> << Issue(path, message) >>
    [] OTHER -> <<>>

\* z.number().nonnegative(message)
ZNumberNonnegative(v, path, message) ==
  CASE v.t = "undef" -> << Issue(path, "Required") >>
    [] v.t # "num" -> << Issue(path, "Expected number") >>
    [] v.n < 0 -> << Issue(path, message) >>
    [] OTHER -> <<>>

\* z.enum(values)
ZEnum(v, path, values) ==
  CASE v.t = "undef" -> << Issue(path, "Required") >>
    [] v.t # "str" -> << Issue(path, "Invalid enum value") >>
    [] v.s \notin values -> << Issue(path, "Invalid enum value") >>
    [] OTHER -> <<>>

\* z.literal(value)
ZLiteral(v, path, value) ==
  IF v = JStr(value) THEN <<>> ELSE << Issue(path, "Invalid literal value") >>

\* the type check z.object and z.array make before looking inside
ZTypeIssue(v, path, type) ==
  CASE v.t = "undef" -> << Issue(path, "Required") >>
    [] v.t # type -> << Issue(path, "Expected " \o type) >>
    [] OTHER -> <<>>

SummarySchema(v, path) ==
  IF v.t # "obj" THEN ZTypeIssue(v, path, "obj")
  ELSE ZStringMin(Get(v, "oneLine"), path \o <<"oneLine">>, 1, "oneLine empty")
    \o ZStringMin(Get(v, "healingTone"), path \o <<"healingTone">>, 1, "healingTone empty")
    \o ZEnum(Get(v, "difficulty"), path \o <<"difficulty">>, DifficultyEnum)
    \o ZNumberPositive(Get(v, "timeTotalMin"), path \o <<"timeTotalMin">>, "timeTotalMin must be > 0")
    \o ZNumberPositive(Get(v, "timeActiveMin"), path \o <<"timeActiveMin">>, "timeActiveMin must be > 0")
    \o ZNumberPositive(Get(v, "servings"), path \o <<"servings">>, "servings must be > 0")

StoryContentMin == 50
StoryContentMax == 500

\* StoryContent with the upper bound exclusive: 500 characters are refused
StoryContent_ExclusiveMax(v, path) ==
  CASE v.t = "undef" -> << Issue(path, "Required") >>
    [] v.t # "str" -> << Issue(path, "Expected string") >>
    [] OTHER ->
         (IF Len(v.s) < StoryContentMin
            THEN << Issue(path, "story content at least 50") >> ELSE <<>>)
      \o (IF Len(v.s) >= StoryContentMax
            THEN << Issue(path, "story content at most 500") >> ELSE <<>>)

\* z.string().min(50, ...).max(500, ...)
StoryContent(v, path) ==
  CASE v.t = "undef" -> << Issue(path, "Required") >>
    [] v.t # "str" -> << Issue(path, "Expected string") >>
    [] OTHER ->
         (IF Len(v.s) < StoryContentMin
            THEN << Issue(path, "story content at least 50") >> ELSE <<>>)
      \o (IF Len(v.s) > StoryContentMax
            THEN << Issue(path, "story content at most 500") >> ELSE <<>>)

\* z.array(z.string()).min(1, ...)
StoryTags(v, path) ==
  IF v.t # "arr" THEN ZTypeIssue(v, path, "arr")
  ELSE (IF Len(v.a) < 1 THEN << Issue(path, "at least 1 tag") >> ELSE <<>>)
    \o ConcatAll([i \in 1..Len(v.a) |->
         IF v.a[i].t = "str" THEN <<>>
         ELSE << Issue(path \o <<Idx(i)>>, "Expected string") >>])

StorySchema(v, path) ==
  IF v.t # "obj" THEN ZTypeIssue(v, path, "obj")
  ELSE ZStringMin(Get(v, "title"), path \o <<"title">>, 1, "story title empty")
    \o StoryContent(Get(v, "content"), path \o <<"content">>)
    \o StoryTags(Get(v, "tags"), path \o <<"tags">>)

IngredientItemSchema(v, path) ==
  IF v.t # "obj" THEN ZTypeIssue(v, path, "obj")
  ELSE ZStringMin(Get(v, "name"), path \o <<"name">>, 1, "ingredient name empty")
    \o ZEnum(Get(v, "iconKey"), path \o <<"iconKey">>, IconKeyEnum)
    \o ZNumberPositive(Get(v, "amount"), path \o <<"amount">>, "amount must be > 0")
    \o ZStringMin(Get(v, "unit"), path \o <<"unit">>, 1, "unit empty")
    \o ZStringOptional(Get(v, "notes"), path \o <<"notes">>)

IngredientItems(v, path) ==
  IF v.t # "arr" THEN ZTypeIssue(v, path, "arr")
  ELSE (IF Len(v.a) < 1 THEN << Issue(path, "at least 1 ingredient") >> ELSE <<>>)
    \o ConcatAll([i \in 1..Len(v.a) |->
         IngredientItemSchema(v.a[i], path \o <<Idx(i)>>)])

IngredientSectionSchema(v, path) ==
  IF v.t # "obj" THEN ZTypeIssue(v, path, "obj")
  ELSE ZStringMin(Get(v, "section"), path \o <<"section">>, 1, "section name empty")
    \o IngredientItems(Get(v, "items"), path \o <<"items">>)

IngredientsSchema(v, path) ==
  IF v.t # "arr" THEN ZTypeIssue(v, path, "arr")
  ELSE (IF Len(v.a) < 1 THEN << Issue(path, "at least 1 section") >> ELSE <<>>)
    \o ConcatAll([i \in 1..Len(v.a) |->
         IngredientSectionSchema(v.a[i], path \o <<Idx(i)>>)])

StepSchema(v, path) ==
  IF v.t # "obj" THEN ZTypeIssue(v, path, "obj")
  ELSE ZStringMin(Get(v, "id"), path \o <<"id">>, 1, "step id empty")
    \o ZStringMin(Get(v, "title"), path \o <<"title">>, 1, "step title empty")
    \o ZStringMin(Get(v, "action"), path \o <<"action">>, 1, "step action empty")
    \o ZStringMin(Get(v, "speechText"), path \o <<"speechText">>, 1, "speechText empty")
    \o ZNumberNonnegative(Get(v, "timerSec"), path \o <<"timerSec">>, "timerSec negative")
    \o ZStringMin(Get(v, "visualCue"), path \o <<"visualCue">>, 1, "visualCue empty")
    \o ZStringMin(Get(v, "failPoint"), path \o <<"failPoint">>, 1, "failPoint empty")
    \o ZStringMin(Get(v, "photoBrief"), path \o <<"photoBrief">>, 1, "photoBrief empty")

StepsSchema(v, path) ==
  IF v.t # "arr" THEN ZTypeIssue(v, path, "arr")
  ELSE (IF Len(v.a) < 1 THEN << Issue(path, "at least 1 step") >> ELSE <<>>)
    \o ConcatAll([i \in 1..Len(v.a) |-> StepSchema(v.a[i], path \o <<Idx(i)>>)])

StyleGuideSchema(v, path) ==
  IF v.t # "obj" THEN ZTypeIssue(v, path, "obj")
  ELSE ZStringMin(Get(v, "theme"), path \o <<"theme">>, 1, "theme empty")
    \o ZStringMin(Get(v, "lighting"), path \o <<"lighting">>, 1, "lighting empty")
    \o ZStringMin(Get(v, "composition"), path \o <<"composition">>, 1, "composition empty")
    \o ZStringMin(Get(v, "aesthetic"), path \o <<"aesthetic">>, 1, "aesthetic empty")

ImageShotSchema(v, path) ==
  IF v.t # "obj" THEN ZTypeIssue(v, path, "obj")
  ELSE ZStringMin(Get(v, "key"), path \o <<"key">>, 1, "image key empty")
    \o ZStringMin(Get(v, "imagePrompt"), path \o <<"imagePrompt">>, 1, "imagePrompt empty")
    \o ZEnum(Get(v, "ratio"), path \o <<"ratio">>, RatioEnum)
    \o ZStringOptional(Get(v, "imageUrl"), path \o <<"imageUrl">>)

ImageShotsSchema(v, path) ==
  IF v.t # "arr" THEN ZTypeIssue(v, path, "arr")
  ELSE ConcatAll([i \in 1..Len(v.a) |-> ImageShotSchema(v.a[i], path \o <<Idx(i)>>)])

RecipeSchema(v) ==
  IF v.t # "obj" THEN ZTypeIssue(v, <<>>, "obj")
  ELSE ZLiteral(Get(v, "schemaVersion"), <<"schemaVersion">>, "1.1.0")
    \o ZStringMin(Get(v, "titleZh"), <<"titleZh">>, 1, "titleZh empty")
    \o ZStringOptional(Get(v, "titleEn"), <<"titleEn">>)
    \o SummarySchema(Get(v, "summary"), <<"summary">>)
    \o StorySchema(Get(v, "story"), <<"story">>)
    \o IngredientsSchema(Get(v, "ingredients"), <<"ingredients">>)
    \o StepsSchema(Get(v, "steps"), <<"steps">>)
    \o StyleGuideSchema(Get(v, "styleGuide"), <<"styleGuide">>)
    \o ImageShotsSchema(Get(v, "imageShots"), <<"imageShots">>)

\* z.object keeps the keys of its shape and strips every other key
Strip(v, keys) == JObj([k \in (DOMAIN v.o) \cap keys |-> v.o[k]])

StripItem(v) == Strip(v, {"name", "iconKey", "amount", "unit", "notes"})

StripSection(v) ==
  LET s == Strip(v, {"section", "items"})
  IN JObj([s.o EXCEPT
       !["items"] = JArr([i \in 1..Len(@.a) |-> StripItem(@.a[i])])])

StripStep(v) ==
  Strip(v, {"id", "title", "action", "speechText", "timerSec", "visualCue",
            "failPoint", "photoBrief"})

StripShot(v) == Strip(v, {"key", "imagePrompt", "ratio", "imageUrl"})

\* the data of a successful parse (only used on a value without issues)
RecipeData(v) ==
  LET s == Strip(v, {"schemaVersion", "titleZh", "titleEn", "summary", "story",
                     "ingredients", "steps", "styleGuide", "imageShots"})
  IN JObj([s.o EXCEPT
       !["summary"] = Strip(@, {"oneLine", "healingTone", "difficulty",
                                "timeTotalMin", "timeActiveMin", "servings"}),
       !["story"] = Strip(@, {"title", "content", "tags"}),
       !["ingredients"] = JArr([i \in 1..Len(@.a) |-> StripSection(@.a[i])]),
       !["steps"] = JArr([i \in 1..Len(@.a) |-> StripStep(@.a[i])]),
       !["styleGuide"] = Strip(@, {"theme", "lighting", "composition", "aesthetic"}),
       !["imageShots"] = JArr([i \in 1..Len(@.a) |-> StripShot(@.a[i])])])

\* RecipeSchema.safeParse(data)
safeValidateRecipe(data) ==
  LET issues == RecipeSchema(data)
  IN IF issues = <<>>
       THEN [success |-> TRUE, data |-> RecipeData(data), issues |-> <<>>]
       ELSE [success |-> FALSE, data |-> JUndef, issues |-> issues]

\* ------------------------------------------------------------------
\* src/lib/ai/generate-recipe.ts : normalizeRecipeData
\* ------------------------------------------------------------------

WhiteSpace == {" ", "\t", "\n", "\r"}
Digits == {"0", "1", "2", "3", "4", "5", "6", "7", "8", "9"}

DigitVal(c) ==
  CASE c = "0" -> 0 [] c = "1" -> 1 [] c = "2" -> 2 [] c = "3" -> 3
    [] c = "4" -> 4 [] c = "5" -> 5 [] c = "6" -> 6 [] c = "7" -> 7
    [] c = "8" -> 8 [] c = "9" -> 9

RECURSIVE LTrim(_)
LTrim(s) == IF s # "" /\ Head(s) \in WhiteSpace THEN LTrim(Tail(s)) ELSE s

RECURSIVE RTrim(_)
RTrim(s) ==
  IF s # "" /\ SubSeq(s, Len(s), Len(s)) \in WhiteSpace
    THEN RTrim(SubSeq(s, 1, Len(s) - 1)) ELSE s

\* String.prototype.trim
Trim(s) == RTrim(LTrim(s))

\* the longest prefix of s made of digits
RECURSIVE LeadingDigits(_)
LeadingDigits(s) ==
  IF s # "" /\ Head(s) \in Digits THEN Head(s) \o LeadingDigits(Tail(s)) ELSE ""

RECURSIVE NatOf(_)
NatOf(ds) ==
  IF ds = "" THEN 0
  ELSE NatOf(SubSeq(ds, 1, Len(ds) - 1)) * 10 + DigitVal(SubSeq(ds, Len(ds), Len(ds)))

Unsigned(t) == IF t # "" /\ Head(t) \in {"+", "-"} THEN Tail(t) ELSE t
SignOf(t) == IF t # "" /\ Head(t) = "-" THEN -1 ELSE 1

\* parseInt(s, 10): leading white space, a sign, then the digits; NaN if none
ParseInt(s) ==
  LET t == LTrim(s)
      ds == LeadingDigits(Unsigned(t))
  IN IF ds = "" THEN JNaN ELSE JDec(SignOf(t) * NatOf(ds) * Scale)

\* parseFloat(s): leading white space, a sign, digits, a fraction; NaN if
\* there is no digit.  (Exponents and Infinity are not among the inputs.)
ParseFloat(s) ==
  LET t == LTrim(s)
      u == Unsigned(t)
      ds == LeadingDigits(u)
      rest == SubSeq(u, Len(ds) + 1, Len(u))
      fs == IF rest # "" /\ Head(rest) = "." THEN LeadingDigits(Tail(rest)) ELSE ""
  IN IF ds = "" /\ fs = "" THEN JNaN
     ELSE JDec(SignOf(t) * (NatOf(ds) * Scale + NatOf(SubSeq(fs \o "00", 1, 2))))

\* String(v).trim().length === 0, for the values a unit can hold
RECURSIVE StringIsBlank(_)
StringIsBlank(v) ==
  CASE v.t = "str" -> Trim(v.s) = ""
    [] v.t = "arr" -> Len(v.a) = 0 \/ (Len(v.a) = 1 /\ (v.a[1].t = "null" \/ StringIsBlank(v.a[1])))
    [] OTHER -> FALSE

\* typeof x[field] === 'string' ? parseInt(x[field], 10) : x[field]
IntField(x, field) ==
  IF Get(x, field).t = "str"
    THEN JObj([x.o EXCEPT ![field] = ParseInt(@.s)])
    ELSE x

\* lines 271-281
NormalizeSummary(summary) ==
  IF ~Truthy(summary) THEN summary
  ELSE IntField(IntField(IntField(summary, "timeTotalMin"), "timeActiveMin"), "servings")

\* NormalizeItem without the assignment item.amount = 1 and with the label
\* put in front of the unit: the text is still there on the next call
NormalizeItem_KeepsAmountText(item) ==
  IF Get(item, "amount").t # "str" THEN item
  ELSE LET amount == Get(item, "amount").s
           unit == Get(item, "unit")
       IN IF ParseFloat(amount) = JNaN
            THEN With(item, "unit",
                   JStr(Trim(amount) \o (IF unit.t = "str" THEN unit.s ELSE "")))
            ELSE With(item, "amount", ParseFloat(amount))

\* lines 287-300: one ingredient item (not null)
NormalizeItem(item) ==
  IF Get(item, "amount").t # "str" THEN item
  ELSE LET amount == Get(item, "amount").s
           numeric == ParseFloat(amount)
       IN IF numeric = JNaN
            THEN IF ~Truthy(Get(item, "unit")) \/ StringIsBlank(Get(item, "unit"))
                   THEN With(With(item, "amount", JNum(1)), "unit", JStr(Trim(amount)))
                   ELSE With(item, "amount", JNum(1))
            ELSE With(item, "amount", numeric)

\* Array.isArray(x) && x is truthy
IsArray(v) == v.t = "arr"

\* lines 285-302: one ingredient section (not null)
NormalizeSection(section) ==
  IF IsArray(Get(section, "items"))
    THEN With(section, "items",
           JArr([i \in 1..Len(Get(section, "items").a) |->
                   NormalizeItem(Get(section, "items").a[i])]))
    ELSE section

\* lines 306-311: one step (not null)
NormalizeStep(step) == IntField(step, "timerSec")

\* reading a property of null raises a TypeError: a null section, a null
\* item of a section's items, a null step
NormalizeThrows(data) ==
  /\ Truthy(data)
  /\ \/ /\ IsArray(Get(data, "ingredients"))
        /\ \E i \in 1..Len(Get(data, "ingredients").a) :
             LET section == Get(data, "ingredients").a[i]
             IN \/ section = JNull
                \/ /\ IsArray(Get(section, "items"))
                   /\ \E j \in 1..Len(Get(section, "items").a) :
                        Get(section, "items").a[j] = JNull
     \/ /\ IsArray(Get(data, "steps"))
        /\ \E i \in 1..Len(Get(data, "steps").a) : Get(data, "steps").a[i] = JNull

\* the value normalizeRecipeData returns when it does not raise
NormalizeValue(data) ==
  IF ~Truthy(data) \/ data.t # "obj" THEN data
  ELSE LET d1 == IF "summary" \in DOMAIN data.o
                   THEN With(data, "summary", NormalizeSummary(Get(data, "summary")))
                   ELSE data
           d2 == IF IsArray(Get(d1, "ingredients"))
                   THEN With(d1, "ingredients",
                          JArr([i \in 1..Len(Get(d1, "ingredients").a) |->
                                  NormalizeSection(Get(d1, "ingredients").a[i])]))
                   ELSE d1
       IN IF IsArray(Get(d2, "steps"))
            THEN With(d2, "steps",
                   JArr([i \in 1..Len(Get(d2, "steps").a) |->
                           NormalizeStep(Get(d2, "steps").a[i])]))
            ELSE d2

normalizeRecipeData(data) ==
  IF NormalizeThrows(data)
    THEN [thrown |-> TRUE, value |-> JUndef]
    ELSE [thrown |-> FALSE, value |-> NormalizeValue(data)]

\* ------------------------------------------------------------------
\* src/lib/ai/generate-recipe.ts : generateRecipe
\*
\* What the text provider and JSON.parse do is the input:
\*   [kind |-> "throw"]                        provider.chat raised
\*   [kind |-> "text", parsed |-> FALSE]       JSON.parse(cleanedContent) raised
\*   [kind |-> "text", parsed |-> TRUE, value |-> v]   JSON.parse returned v
\* ------------------------------------------------------------------

ChatThrew == [kind |-> "throw", parsed |-> FALSE, value |-> JUndef]
ParseThrew == [kind |-> "text", parsed |-> FALSE, value |-> JUndef]
Parsed(v) == [kind |-> "text", parsed |-> TRUE, value |-> v]

\* typeof v === 'object', for a truthy v
IsObjectType(v) == v.t \in {"obj", "arr"}

\* the own enumerable properties { ...v } copies: an object's fields, an
\* array's indices
OwnProperties(v) ==
  IF v.t = "obj" THEN v.o
  ELSE [k \in {Idx(i) : i \in 1..Len(v.a)} |-> v.a[CHOOSE i \in 1..Len(v.a) : Idx(i) = k]]

\* lines 353-359, for a recipeData that is not null
Unwrap(recipeData) ==
  LET recipe == Get(recipeData, "recipe")
  IN IF Truthy(recipe) /\ IsObjectType(recipe)
       THEN JObj(OwnProperties(recipe) @@ Without(recipeData, "recipe").o)
       ELSE recipeData

\* the prefixes of the three failure returns
ParsePrefix == "JSON parse failed: "
SchemaPrefix == "Schema validation failed: "
NoPrefix == ""

Failure(prefix, messages, passed) ==
  [success |-> FALSE, data |-> JUndef, prefix |-> prefix, messages |-> messages,
   passed |-> passed]

\* IssueMessages with issues[0].message in place of the map over the issues
IssueMessages_FirstOnly(issues) == <<issues[1].message>>

\* validation.error.issues.map((i) => i.message), joined into the error
IssueMessages(issues) == [i \in 1..Len(issues) |-> issues[i].message]

\* lines 381-398; passed records the value handed to normalizeRecipeData
ValidateStage(merged) ==
  LET normalized == normalizeRecipeData(merged)
      validation == safeValidateRecipe(normalized.value)
  IN IF normalized.thrown
       THEN Failure(NoPrefix, <<"TypeError">>, merged)
       ELSE IF ~validation.success
         THEN Failure(SchemaPrefix, IssueMessages(validation.issues), merged)
         ELSE [success |-> TRUE, data |-> validation.data, prefix |-> NoPrefix,
               messages |-> <<>>, passed |-> merged]

\* lines 349-379: reading recipeData.recipe of null raises inside the try
\* block whose catch returns the parse failure
ParseStage(chat) ==
  IF ~chat.parsed THEN Failure(ParsePrefix, <<"SyntaxError">>, JUndef)
  ELSE IF chat.value = JNull THEN Failure(ParsePrefix, <<"TypeError">>, JUndef)
  ELSE ValidateStage(Unwrap(chat.value))

generateRecipe(chat) ==
  IF chat.kind = "throw" THEN Failure(NoPrefix, <<"provider error">>, JUndef)
  ELSE ParseStage(chat)

\* the kind of failure a caller reads off the error text
Kind(result) ==
  CASE result.success -> "Success"
    [] result.prefix = ParsePrefix -> "Malformed"
    [] result.prefix = SchemaPrefix -> "SchemaInvalid"
    [] OTHER -> "UpstreamFailure"

\* ------------------------------------------------------------------
\* Documents the model draws its inputs from
\* ------------------------------------------------------------------

Shot(key, ratio) ==
  JObj([key |-> JStr(key), imagePrompt |-> JStr("a plate, no text"),
        ratio |-> JStr(ratio)])

\* a shot that already carries an imageUrl, which ImageShotSchema allows
ShotWithUrl(key, ratio, url) ==
  JObj([key |-> JStr(key), imagePrompt |-> JStr("a plate, no text"),
        ratio |-> JStr(ratio), imageUrl |-> JStr(url)])

Item(amount, unit) ==
  JObj([name |-> JStr("egg"), iconKey |-> JStr("egg"), amount |-> amount,
        unit |-> unit])

ItemWithNotes(amount, unit, notes) ==
  JObj([name |-> JStr("egg"), iconKey |-> JStr("egg"), amount |-> amount,
        unit |-> unit, notes |-> notes])

Section(items) == JObj([section |-> JStr("main"), items |-> JArr(items)])

Step(timerSec) ==
  JObj([id |-> JStr("step01"), title |-> JStr("prepare"),
        action |-> JStr("wash and cut"), speechText |-> JStr("cut it"),
        timerSec |-> timerSec, visualCue |-> JStr("golden"),
        failPoint |-> JStr("burnt"), photoBrief |-> JStr("close up")])

Summary(timeTotalMin, servings) ==
  JObj([oneLine |-> JStr("sweet and sour"), healingTone |-> JStr("warm"),
        difficulty |-> JStr("easy"), timeTotalMin |-> timeTotalMin,
        timeActiveMin |-> JNum(10), servings |-> servings])

\* the fields of a recipe, without the schema version tag
RecipeFields(contentLen, items, shots) ==
  [titleZh |-> JStr("tomato egg"),
   summary |-> Summary(JNum(15), JNum(2)),
   story |-> JObj([title |-> JStr("home"), content |-> JStr(Rep(contentLen)),
                   tags |-> JArr(<<JStr("home")>>)]),
   ingredients |-> JArr(<<Section(items)>>),
   steps |-> JArr(<<Step(JNum(0))>>),
   styleGuide |-> JObj([theme |-> JStr("warm"), lighting |-> JStr("natural"),
                        composition |-> JStr("space"), aesthetic |-> JStr("ghibli")]),
   imageShots |-> JArr(shots)]

Recipe(contentLen, items, shots) ==
  JObj(("schemaVersion" :> JStr("1.1.0")) @@ RecipeFields(contentLen, items, shots))

\* the array index a path element names
IndexOf(p) == CHOOSE i \in 1..9 : Idx(i) = p

\* v with the field at path removed; v has that field
RECURSIVE RemoveAt(_, _)
RemoveAt(v, path) ==
  IF Len(path) = 1 THEN Without(v, path[1])
  ELSE IF v.t = "arr"
    THEN JArr([v.a EXCEPT ![IndexOf(path[1])] = RemoveAt(@, Tail(path))])
    ELSE JObj([v.o EXCEPT ![path[1]] = RemoveAt(@, Tail(path))])

\* v with the field at path set to value; v has that field
RECURSIVE SetAt(_, _, _)
SetAt(v, path, value) ==
  IF path = <<>> THEN value
  ELSE IF v.t = "arr"
    THEN JArr([v.a EXCEPT ![IndexOf(path[1])] = SetAt(@, Tail(path), value)])
    ELSE JObj([v.o EXCEPT ![path[1]] = SetAt(@, Tail(path), value)])

\* ------------------------------------------------------------------
\* src/lib/ai/generate-recipe.ts : cleanAIResponse
\*
\* A text is the sequence of its characters, each a string of length one;
\* the backquote, which cannot be written in a string here, is "BACKTICK".
\* ------------------------------------------------------------------

Fence == <<"BACKTICK", "BACKTICK", "BACKTICK">>

Chars(s) == [i \in 1..Len(s) |-> SubSeq(s, i, i)]

Min(S) == CHOOSE x \in S : \A y \in S : x <= y
Max(S) == CHOOSE x \in S : \A y \in S : x >= y

\* the text has the characters of word at i
HasAt(cs, i, word) ==
  /\ i >= 1 /\ i + Len(word) - 1 <= Len(cs)
  /\ SubSeq(cs, i, i + Len(word) - 1) = word

\* the first index from i on that holds a character outside the set, or
\* Len(cs) + 1: where a greedy \s*, \d+ or .* that starts at i stops
SkipWhile(cs, i, set) ==
  LET stops == {j \in i..Len(cs) : cs[j] \notin set}
  IN IF stops = {} THEN Len(cs) + 1 ELSE Min(stops)

SkipSpace(cs, i) == SkipWhile(cs, i, WhiteSpace)

\* the first index from i on that holds a character of the set, or
\* Len(cs) + 1: where a greedy [^...]* that starts at i stops
SkipUntil(cs, i, set) ==
  LET stops == {j \in i..Len(cs) : cs[j] \in set}
  IN IF stops = {} THEN Len(cs) + 1 ELSE Min(stops)

\* String.prototype.trim, on a text
TrimText(cs) ==
  LET inked == {j \in 1..Len(cs) : cs[j] \notin WhiteSpace}
  IN IF inked = {} THEN <<>> ELSE SubSeq(cs, Min(inked), Max(inked))

\* the number a text of digits spells
RECURSIVE NatOfChars(_)
NatOfChars(ds) ==
  IF ds = <<>> THEN 0
  ELSE NatOfChars(SubSeq(ds, 1, Len(ds) - 1)) * 10 + DigitVal(ds[Len(ds)])

\* lines 214-261.  Each replace call is a definition of its own, in the order
\* of the code.
cleanAIResponse(response) ==
  LET
      \* line 217: replace(/^```json\s*/i, "")
      StripJsonFence(cs) ==
        IF /\ HasAt(cs, 1, Fence) /\ Len(cs) >= 7
           /\ cs[4] \in {"j", "J"} /\ cs[5] \in {"s", "S"}
           /\ cs[6] \in {"o", "O"} /\ cs[7] \in {"n", "N"}
          THEN SubSeq(cs, SkipSpace(cs, 8), Len(cs))
          ELSE cs

      \* line 218: replace(/^```\s*/i, "")
      StripOpeningFence(cs) ==
        IF HasAt(cs, 1, Fence) THEN SubSeq(cs, SkipSpace(cs, 4), Len(cs)) ELSE cs

      \* line 219: replace(/\s*```$/i, ""): the fence that ends the text, with the
      \* white space in front of it
      StripClosingFence(cs) ==
        IF HasAt(cs, Len(cs) - 2, Fence)
          THEN LET inked == {j \in 1..(Len(cs) - 3) : cs[j] \notin WhiteSpace}
               IN SubSeq(cs, 1, IF inked = {} THEN 0 ELSE Max(inked))
          ELSE cs

      \* lines 223-228: from the first { to the last }
      ExtractBraces(cs) ==
        LET opens == {j \in 1..Len(cs) : cs[j] = "{"}
            closes == {j \in 1..Len(cs) : cs[j] = "}"}
        IN IF opens # {} /\ closes # {} /\ Max(closes) > Min(opens)
             THEN SubSeq(cs, Min(opens), Max(closes))
             ELSE cs

      \* A replace with the g flag: the matches, from left to right, each the
      \* characters from..to and the text put in their place.  A match that begins
      \* inside the one before it is no match.
      Edit(from, to, text) == [from |-> from, to |-> to, text |-> text]

      Indices(cs) == [i \in 1..Len(cs) |-> i]

      RECURSIVE Splice(_, _, _)
      Splice(cs, edits, next) ==
        IF edits = <<>> THEN SubSeq(cs, next, Len(cs))
        ELSE LET e == Head(edits)
             IN IF e.from < next THEN Splice(cs, Tail(edits), next)
                ELSE SubSeq(cs, next, e.from - 1) \o e.text \o Splice(cs, Tail(edits), e.to + 1)

      \* line 231: replace(/\/\/.*$/gm, ''): from // to the end of the line
      RemoveLineComments(cs) ==
        LET starts == SelectSeq(Indices(cs), LAMBDA i : HasAt(cs, i, <<"/", "/">>))
        IN Splice(cs, [k \in 1..Len(starts) |->
                         Edit(starts[k],
                              SkipUntil(cs, starts[k], {"\n", "\r"}) - 1,
                              <<>>)], 1)

      \* the first */ from i on, or 0
      Closing(cs, i) ==
        LET ends == {j \in i..Len(cs) : HasAt(cs, j, <<"*", "/">>)}
        IN IF ends = {} THEN 0 ELSE Min(ends)

      \* line 232: replace(/\/\*[\s\S]*?\*\//g, '')
      RemoveBlockComments(cs) ==
        LET starts == SelectSeq(Indices(cs),
                        LAMBDA i : HasAt(cs, i, <<"/", "*">>) /\ Closing(cs, i + 2) # 0)
        IN Splice(cs, [k \in 1..Len(starts) |->
                         Edit(starts[k], Closing(cs, starts[k] + 2) + 1, <<>>)], 1)

      \* line 235: replace(/,(\s*[}\]])/g, '$1')
      RemoveTrailingCommas(cs) ==
        LET starts == SelectSeq(Indices(cs),
                        LAMBDA i : /\ cs[i] = ","
                                   /\ SkipSpace(cs, i + 1) <= Len(cs)
                                   /\ cs[SkipSpace(cs, i + 1)] \in {"}", "]"})
        IN Splice(cs, [k \in 1..Len(starts) |-> Edit(starts[k], starts[k], <<>>)], 1)

      AmountKey == Chars("\"amount\":")

      \* lines 239-243: replace(/"amount":\s*1\/2/g, '"amount": 0.5') and its like:
      \* nothing is asked of what follows the fraction
      ReplaceFraction(cs, fraction, decimal) ==
        LET starts == SelectSeq(Indices(cs),
                        LAMBDA i : /\ HasAt(cs, i, AmountKey)
                                   /\ HasAt(cs, SkipSpace(cs, i + Len(AmountKey)), Chars(fraction)))
        IN Splice(cs, [k \in 1..Len(starts) |->
                         Edit(starts[k],
                              SkipSpace(cs, starts[k] + Len(AmountKey)) + Len(fraction) - 1,
                              AmountKey \o Chars(" " \o decimal))], 1)

      MaxFractionDigits == 16

      \* the digits after the point of rest / denom
      RECURSIVE FractionDigits(_, _, _)
      FractionDigits(rest, denom, room) ==
        IF rest = 0 \/ room = 0 THEN <<>>
        ELSE Chars(ToString((rest * 10) \div denom))
               \o FractionDigits((rest * 10) % denom, denom, room - 1)

      \* `${parseFloat(num) / parseFloat(denom)}`, for a quotient with a finite
      \* decimal expansion; a division by zero gives Infinity or NaN
      QuotientText(num, denom) ==
        IF denom = 0 THEN (IF num = 0 THEN Chars("NaN") ELSE Chars("Infinity"))
        ELSE LET digits == FractionDigits(num % denom, denom, MaxFractionDigits)
             IN Chars(ToString(num \div denom))
                  \o (IF digits = <<>> THEN <<>> ELSE <<".">> \o digits)

      \* the end of the match of /"amount":\s*(\d+)\/(\d+)/ at i, or 0
      GeneralFractionEnd(cs, i) ==
        LET num == SkipSpace(cs, i + Len(AmountKey))
            slash == SkipWhile(cs, num, Digits)
            denom == slash + 1
            end == SkipWhile(cs, denom, Digits)
        IN IF /\ HasAt(cs, i, AmountKey)
              /\ slash > num /\ slash <= Len(cs) /\ cs[slash] = "/"
              /\ end > denom
             THEN end - 1 ELSE 0

      \* lines 244-246
      ReplaceGeneralFractions(cs) ==
        LET starts == SelectSeq(Indices(cs), LAMBDA i : GeneralFractionEnd(cs, i) # 0)
        IN Splice(cs, [k \in 1..Len(starts) |->
             LET num == SkipSpace(cs, starts[k] + Len(AmountKey))
                 slash == SkipWhile(cs, num, Digits)
                 end == GeneralFractionEnd(cs, starts[k])
             IN Edit(starts[k], end,
                     AmountKey \o <<" ">>
                       \o QuotientText(NatOfChars(SubSeq(cs, num, slash - 1)),
                                       NatOfChars(SubSeq(cs, slash + 1, end))))], 1)

      RepairedKeys == {"amount", "unit", "notes"}

      \* the key of lines 249-250 that stands, in quotes, at i ("" if none)
      KeyAt(cs, i) ==
        LET keys == {k \in RepairedKeys : HasAt(cs, i, <<"\"">> \o Chars(k) \o <<"\"">>)}
        IN IF keys = {} THEN "" ELSE CHOOSE k \in keys : TRUE

      \* [^\d"{}\[\]-]: white space is not excluded
      FirstOfBare(c) == c \notin Digits \cup {"\"", "{", "}", "[", "]", "-"}

      \* Where the group ([^\d"{}\[\]-][^,\n}]*) of line 250 begins when the
      \* pattern is tried at i, or 0.  After the colon \s* takes all the white
      \* space; if the character behind it cannot begin the group, \s* gives its
      \* last character back, and that white space begins the group.
      BareStart(cs, i) ==
        LET colon == SkipSpace(cs, i + Len(KeyAt(cs, i)) + 2)
            value == SkipSpace(cs, colon + 1)
        IN IF KeyAt(cs, i) = "" \/ colon > Len(cs) \/ cs[colon] # ":" THEN 0
           ELSE IF value <= Len(cs) /\ FirstOfBare(cs[value]) THEN value
           ELSE IF value > colon + 1 THEN value - 1
           ELSE 0

      \* the last character of the group: [^,\n}]* takes all it can
      BareEnd(cs, start) ==
        SkipUntil(cs, start + 1, {",", "\n", "}"}) - 1

      \* value.replace(/"/g, '\\"')
      RECURSIVE EscapeQuotes(_)
      EscapeQuotes(cs) ==
        IF cs = <<>> THEN <<>>
        ELSE (IF Head(cs) = "\"" THEN <<"\\", "\"">> ELSE <<Head(cs)>>) \o EscapeQuotes(Tail(cs))

      \* lines 251-257: what the match is replaced by
      Requoted(key, rawValue) ==
        LET value == TrimText(rawValue)
        IN IF value = Chars("null")
             THEN <<"\"">> \o Chars(key) \o Chars("\": null")
             ELSE <<"\"">> \o Chars(key) \o Chars("\": \"") \o EscapeQuotes(value) \o <<"\"">>

      \* lines 249-258
      QuoteBareValues(cs) ==
        LET starts == SelectSeq(Indices(cs), LAMBDA i : BareStart(cs, i) # 0)
        IN Splice(cs, [k \in 1..Len(starts) |->
             LET from == BareStart(cs, starts[k])
                 to == BareEnd(cs, from)
             IN Edit(starts[k], to, Requoted(KeyAt(cs, starts[k]), SubSeq(cs, from, to)))], 1)

      \* lines 237-246
      ReplaceFractions(cs) ==
        ReplaceGeneralFractions(
          ReplaceFraction(
            ReplaceFraction(
              ReplaceFraction(
                ReplaceFraction(
                  ReplaceFraction(cs, "1/2", "0.5"),
                  "1/3", "0.33"),
                "2/3", "0.67"),
              "1/4", "0.25"),
            "3/4", "0.75"))

      unfenced == TrimText(StripClosingFence(StripOpeningFence(StripJsonFence(TrimText(response)))))
      uncommented == RemoveBlockComments(RemoveLineComments(ExtractBraces(unfenced)))
  IN TrimText(QuoteBareValues(ReplaceFractions(RemoveTrailingCommas(uncommented))))

\* ------------------------------------------------------------------
\* JSON.parse (generate-recipe.ts line 350), on a text.  Numbers keep two
\* decimal places; exponents and the escapes \b, \f and \u are not among
\* the inputs and are not read.
\* ------------------------------------------------------------------

\* JSON.parse(cleanedContent): the value, or the SyntaxError
JSONParse(text) ==
  LET
      ParseFail == [ok |-> FALSE, value |-> JUndef, next |-> 0]
      ParseOk(value, next) == [ok |-> TRUE, value |-> value, next |-> next]

      Invalid == "INVALID"

      \* the index of the quote that ends the string whose characters begin at j,
      \* or 0: a line break or tab inside a string is an error
      RECURSIVE StringEnd(_, _)
      StringEnd(cs, j) ==
        IF j > Len(cs) \/ cs[j] \in {"\n", "\r", "\t"} THEN 0
        ELSE IF cs[j] = "\"" THEN j
        ELSE IF cs[j] = "\\" THEN StringEnd(cs, j + 2)
        ELSE StringEnd(cs, j + 1)

      RECURSIVE Unescape(_)
      Unescape(cs) ==
        IF cs = <<>> THEN <<>>
        ELSE IF Head(cs) # "\\" THEN <<Head(cs)>> \o Unescape(Tail(cs))
        ELSE IF Len(cs) = 1 THEN <<Invalid>>
        ELSE LET c == cs[2]
             IN (CASE c \in {"\"", "\\", "/"} -> <<c>>
                   [] c = "n" -> <<"\n">>
                   [] c = "t" -> <<"\t">>
                   [] c = "r" -> <<"\r">>
                   [] OTHER -> <<Invalid>>) \o Unescape(SubSeq(cs, 3, Len(cs)))

      \* the string a text spells
      RECURSIVE Join(_)
      Join(cs) == IF cs = <<>> THEN "" ELSE Head(cs) \o Join(Tail(cs))

      \* cs[i] is the opening quote
      ParseString(cs, i) ==
        LET end == StringEnd(cs, i + 1)
            body == Unescape(SubSeq(cs, i + 1, end - 1))
        IN IF end = 0 \/ \E k \in 1..Len(body) : body[k] = Invalid THEN ParseFail
           ELSE ParseOk(JStr(Join(body)), end + 1)

      \* -?(0|[1-9]\d*)(\.\d+)?
      ParseNumber(cs, i) ==
        LET int == IF cs[i] = "-" THEN i + 1 ELSE i
            intEnd == SkipWhile(cs, int, Digits)
            hasPoint == intEnd <= Len(cs) /\ cs[intEnd] = "."
            fracEnd == IF hasPoint THEN SkipWhile(cs, intEnd + 1, Digits) ELSE intEnd
            frac == SubSeq(SubSeq(cs, intEnd + 1, fracEnd - 1) \o <<"0", "0">>, 1, 2)
            sign == IF cs[i] = "-" THEN -1 ELSE 1
        IN IF \/ intEnd = int
              \/ (cs[int] = "0" /\ intEnd > int + 1)
              \/ (hasPoint /\ fracEnd = intEnd + 1)
             THEN ParseFail
             ELSE ParseOk(JDec(sign * (NatOfChars(SubSeq(cs, int, intEnd - 1)) * Scale
                                         + NatOfChars(frac))),
                          fracEnd)

      RECURSIVE ParseValue(_, _), ParseMembers(_, _, _), ParseElements(_, _, _)

      \* a value, from the first character that is no white space at or after i
      ParseValue(cs, i) ==
        LET at == SkipSpace(cs, i)
        IN IF at > Len(cs) THEN ParseFail
           ELSE CASE cs[at] = "{" ->
                       IF SkipSpace(cs, at + 1) <= Len(cs) /\ cs[SkipSpace(cs, at + 1)] = "}"
                         THEN ParseOk(JObj(<<>>), SkipSpace(cs, at + 1) + 1)
                         ELSE ParseMembers(cs, at + 1, <<>>)
                  [] cs[at] = "[" ->
                       IF SkipSpace(cs, at + 1) <= Len(cs) /\ cs[SkipSpace(cs, at + 1)] = "]"
                         THEN ParseOk(JArr(<<>>), SkipSpace(cs, at + 1) + 1)
                         ELSE ParseElements(cs, at + 1, <<>>)
                  [] cs[at] = "\"" -> ParseString(cs, at)
                  [] cs[at] \in Digits \cup {"-"} -> ParseNumber(cs, at)
                  [] HasAt(cs, at, Chars("null")) -> ParseOk(JNull, at + 4)
                  [] HasAt(cs, at, Chars("true")) -> ParseOk(JBool(TRUE), at + 4)
                  [] HasAt(cs, at, Chars("false")) -> ParseOk(JBool(FALSE), at + 5)
                  [] OTHER -> ParseFail

      \* the members of an object from i on; of two members with one key the
      \* later one is kept
      ParseMembers(cs, i, members) ==
        LET at == SkipSpace(cs, i)
            key == IF at <= Len(cs) /\ cs[at] = "\"" THEN ParseString(cs, at) ELSE ParseFail
            colon == SkipSpace(cs, key.next)
            value == IF key.ok /\ colon <= Len(cs) /\ cs[colon] = ":"
                       THEN ParseValue(cs, colon + 1) ELSE ParseFail
            after == SkipSpace(cs, value.next)
            all == (key.value.s :> value.value) @@ members
        IN IF ~value.ok \/ after > Len(cs) THEN ParseFail
           ELSE IF cs[after] = "," THEN ParseMembers(cs, after + 1, all)
           ELSE IF cs[after] = "}" THEN ParseOk(JObj(all), after + 1)
           ELSE ParseFail

      ParseElements(cs, i, elements) ==
        LET value == ParseValue(cs, i)
            after == SkipSpace(cs, value.next)
            all == Append(elements, value.value)
        IN IF ~value.ok \/ after > Len(cs) THEN ParseFail
           ELSE IF cs[after] = "," THEN ParseElements(cs, after + 1, all)
           ELSE IF cs[after] = "]" THEN ParseOk(JArr(all), after + 1)
           ELSE ParseFail

      parsed == ParseValue(text, 1)
  IN IF parsed.ok /\ SkipSpace(text, parsed.next) > Len(text)
       THEN Parsed(parsed.value) ELSE ParseThrew

\* ------------------------------------------------------------------
\* State
\* ------------------------------------------------------------------

VARIABLES
  vpc,      \* validation run: "doc", "changed", "validated"
  vDoc,     \* the document handed to safeValidateRecipe
  vMut,     \* what was done to the well-formed document
  vResult   \* what safeValidateRecipe returned

vvars == <<vpc, vDoc, vMut, vResult>>

VARIABLES
  rpc,      \* recovery run: "chat", "done"
  rChat,    \* what the text provider and JSON.parse do
  rResult   \* what generateRecipe returned

rvars == <<rpc, rChat, rResult>>

VARIABLES
  bpc,           \* batch: "loop", "generate", "pause", "returned", "rejected"
  dishNames,     \* the names the batch was called with
  onProgress,    \* whether options.onProgress was supplied
  bi,            \* the loop variable i (0-based, as in the code)
  results,       \* the results array
  successCount,
  failedCount,
  bReturn,       \* the value the batch resolved with
  bLog           \* what happened, in order: callback calls, recoveries, pauses

bvars == <<bpc, dishNames, onProgress, bi, results, successCount, failedCount,
           bReturn, bLog>>

VARIABLES
  ppc,          \* POST: "request", "loop", "image", "fetch", "upload", "save",
                \* "responded"
  pBody,        \* the request body
  pChat,        \* what the text provider and JSON.parse do for this request
  storage,      \* whether R2_ENDPOINT and R2_ACCESS_KEY_ID are set
  imageShots,   \* result.data.imageShots, written in place
  pk,           \* the shot the loop is at (1-based)
  coverImage,
  imageError,
  pOutcome,     \* per shot, what the image capability did
  pReason,      \* per shot, the error the capability returned or raised
  pWrites,      \* per shot, how often its imageUrl was written
  pLog,         \* image capability calls and shot completions, in order
  pSaved,       \* the records prisma.recipe.create stored
  pResponse     \* the response of the handler

pvars == <<ppc, pBody, pChat, storage, imageShots, pk, coverImage, imageError,
           pOutcome, pReason, pWrites, pLog, pSaved, pResponse>>

VARIABLES
  npc,      \* normalization run: "value", "once", "twice"
  nIn,      \* the parsed value handed to normalizeRecipeData
  nOnce,    \* what normalizeRecipeData returned for it
  nTwice    \* what normalizeRecipeData returned for that result

nvars == <<npc, nIn, nOnce, nTwice>>

VARIABLES
  spc,      \* text run: "raw", "cleaned", "parsed", "normalized"
  sInput,   \* how the text of the response is put together
  sRaw,     \* response.content
  sClean,   \* what cleanAIResponse returned for it
  sParsed,  \* what JSON.parse did with the cleaned text
  sNormal,  \* what normalizeRecipeData returned for the parsed value
  sValid    \* what safeValidateRecipe returned for the normalized value

svars == <<spc, sInput, sRaw, sClean, sParsed, sNormal, sValid>>


vars == <<vvars, rvars, bvars, pvars, nvars, svars>>

NoResult == [success |-> FALSE, data |-> JUndef, issues |-> <<>>]

\* ------------------------------------------------------------------
\* Validation runs: a well-formed document, optionally with one required
\* field removed or story.content resized, handed to safeValidateRecipe
\* ------------------------------------------------------------------

ContentLengths == {StoryContentMin, StoryContentMin + 1, StoryContentMax - 1, StoryContentMax}

WellFormedDocs ==
  { IF titleEn THEN With(Recipe(n, items, shots), "titleEn", JStr("Tomato Egg"))
               ELSE Recipe(n, items, shots) :
      n \in ContentLengths,
      items \in { <<Item(JNum(3), JStr("pcs"))>>,
                  <<ItemWithNotes(JNum(1), JStr("spoon"), JStr("ripe"))>> },
      shots \in { <<>>, <<Shot("cover", "16:9")>> },
      titleEn \in BOOLEAN }

SummaryFields ==
  {"oneLine", "healingTone", "difficulty", "timeTotalMin", "timeActiveMin", "servings"}
StoryFields == {"title", "content", "tags"}
ItemFields == {"name", "iconKey", "amount", "unit"}
StepFields ==
  {"id", "title", "action", "speechText", "timerSec", "visualCue", "failPoint",
   "photoBrief"}
StyleGuideFields == {"theme", "lighting", "composition", "aesthetic"}
ShotFields == {"key", "imagePrompt", "ratio"}

\* the required fields of a document, as paths
RequiredPaths(doc) ==
  { <<k>> : k \in {"schemaVersion", "titleZh", "summary", "story", "ingredients",
                   "steps", "styleGuide", "imageShots"} }
  \cup { <<"summary", k>> : k \in SummaryFields }
  \cup { <<"story", k>> : k \in StoryFields }
  \cup { <<"ingredients", "0", k>> : k \in {"section", "items"} }
  \cup { <<"ingredients", "0", "items", "0", k>> : k \in ItemFields }
  \cup { <<"steps", "0", k>> : k \in StepFields }
  \cup { <<"styleGuide", k>> : k \in StyleGuideFields }
  \cup (IF Get(doc, "imageShots").a = <<>> THEN {}
        ELSE { <<"imageShots", "0", k>> : k \in ShotFields })

RIdle ==
  /\ rpc = "idle"
  /\ rChat = ChatThrew
  /\ rResult = Failure(NoPrefix, <<>>, JUndef)

NoReturn == [success |-> 0, failed |-> 0, results |-> <<>>]

BIdle ==
  /\ bpc = "idle"
  /\ dishNames = <<>>
  /\ onProgress = FALSE
  /\ bi = 0
  /\ results = <<>>
  /\ successCount = 0
  /\ failedCount = 0
  /\ bReturn = NoReturn
  /\ bLog = <<>>

NoResponse == [status |-> 0, success |-> FALSE, coverGenerated |-> FALSE,
               saved |-> FALSE, imageError |-> JUndef]

PIdle ==
  /\ ppc = "idle"
  /\ pBody = [dishName |-> FALSE, autoSave |-> "absent"]
  /\ pChat = ChatThrew
  /\ storage = FALSE
  /\ imageShots = <<>>
  /\ pk = 1
  /\ coverImage = JUndef
  /\ imageError = JUndef
  /\ pOutcome = <<>>
  /\ pReason = <<>>
  /\ pWrites = <<>>
  /\ pLog = <<>>
  /\ pSaved = <<>>
  /\ pResponse = NoResponse

NotRun == [thrown |-> FALSE, value |-> JUndef]

NIdle ==
  /\ npc = "idle"
  /\ nIn = JUndef
  /\ nOnce = NotRun
  /\ nTwice = NotRun

SIdle ==
  /\ spc = "idle"
  /\ sInput = [family |-> "none", open |-> <<>>, close |-> <<>>, key |-> "", sep |-> "",
               val |-> "", kind |-> "", n |-> 0, d |-> 0, doc |-> JUndef]
  /\ sRaw = <<>>
  /\ sClean = <<>>
  /\ sParsed = ParseThrew
  /\ sNormal = NotRun
  /\ sValid = NoResult

VInit ==
  /\ vpc = "doc"
  /\ vDoc \in WellFormedDocs
  /\ vMut = [kind |-> "none", path |-> <<>>, len |-> 0]
  /\ vResult = NoResult
  /\ RIdle
  /\ BIdle
  /\ PIdle
  /\ NIdle
  /\ SIdle

VIdle ==
  /\ vpc = "idle"
  /\ vDoc = JUndef
  /\ vMut = [kind |-> "none", path |-> <<>>, len |-> 0]
  /\ vResult = NoResult

RemoveField ==
  /\ vpc = "doc"
  /\ \E path \in RequiredPaths(vDoc) :
       /\ vDoc' = RemoveAt(vDoc, path)
       /\ vMut' = [kind |-> "remove", path |-> path, len |-> 0]
  /\ vpc' = "changed"
  /\ UNCHANGED <<vResult, rvars, bvars, pvars,
                 nvars, svars>>

ResizeContent ==
  /\ vpc = "doc"
  /\ \E n \in {StoryContentMin - 1, StoryContentMax + 1} :
       /\ vDoc' = SetAt(vDoc, <<"story", "content">>, JStr(Rep(n)))
       /\ vMut' = [kind |-> "resize", path |-> <<"story", "content">>, len |-> n]
  /\ vpc' = "changed"
  /\ UNCHANGED <<vResult, rvars, bvars, pvars,
                 nvars, svars>>

Validate ==
  /\ vpc \in {"doc", "changed"}
  /\ vResult' = safeValidateRecipe(vDoc)
  /\ vpc' = "validated"
  /\ UNCHANGED <<vDoc, vMut, rvars, bvars, pvars,
                 nvars, svars>>

VNext == RemoveField \/ ResizeContent \/ Validate

SpecValidate == VInit /\ [][VNext]_vars

\* ------------------------------------------------------------------
\* Recovery runs: generateRecipe on what the provider returned
\* ------------------------------------------------------------------

GoodItems == <<Item(JNum(3), JStr("pcs"))>>
Good == Recipe(StoryContentMin, GoodItems, <<Shot("cover", "16:9")>>)

\* recipes as the model writes them: well formed, with numbers written as
\* strings, with null where an object belongs, with fields missing
Payloads ==
  { Good,
    SetAt(Good, <<"summary", "servings">>, JStr("2")),
    SetAt(Good, <<"steps", "0", "timerSec">>, JStr("30 s")),
    Recipe(StoryContentMin, <<Item(JStr("a pinch"), JStr(""))>>, <<>>),
    Recipe(StoryContentMin, <<Item(JStr("0.5"), JStr("spoon"))>>, <<>>),
    Recipe(StoryContentMin, <<ItemWithNotes(JNum(1), JStr("g"), JNull)>>, <<>>),
    SetAt(Good, <<"ingredients">>, JArr(<<JNull>>)),
    SetAt(Good, <<"ingredients", "0", "items">>, JArr(<<JNull>>)),
    SetAt(Good, <<"steps">>, JArr(<<JNull>>)),
    RemoveAt(Good, <<"titleZh">>),
    RemoveAt(RemoveAt(Good, <<"story", "tags">>), <<"styleGuide", "theme">>),
    SetAt(Good, <<"story", "content">>, JStr(Rep(StoryContentMin - 1))) }

\* the ways a payload arrives: bare, inside the envelope the prompt asks
\* for, inside an envelope with a sibling of the same name, with a recipe
\* field that is no envelope
Wrappings(payload) ==
  LET fields == Without(payload, "schemaVersion")
      version == [schemaVersion |-> JStr("1.1.0")]
  IN { payload,
       JObj([recipe |-> fields] @@ version),
       JObj([recipe |-> With(fields, "schemaVersion", JStr("1.1.0"))]),
       JObj([recipe |-> fields, titleZh |-> JStr("outer title"),
             note |-> JStr("sibling")] @@ version),
       JObj([recipe |-> With(fields, "recipe", JStr("inner"))] @@ version),
       With(payload, "recipe", JNull),
       With(payload, "recipe", JStr("tomato egg")),
       With(payload, "recipe", JArr(<<>>)),
       With(payload, "recipe", JArr(<<JStr("a"), JStr("b")>>)),
       With(payload, "recipe", JObj(<<>>)) }

ParsedValues ==
  {JNull, JNum(5), JNum(0), JStr("hi"), JStr(""), JBool(TRUE), JBool(FALSE),
   JArr(<<>>), JArr(<<Good>>), JObj(<<>>)}
  \cup UNION { Wrappings(p) : p \in Payloads }

ChatOutcomes == {ChatThrew, ParseThrew} \cup { Parsed(v) : v \in ParsedValues }

RInit ==
  /\ rpc = "chat"
  /\ rChat \in ChatOutcomes
  /\ rResult = Failure(NoPrefix, <<>>, JUndef)
  /\ VIdle
  /\ BIdle
  /\ PIdle
  /\ NIdle
  /\ SIdle

Recover ==
  /\ rpc = "chat"
  /\ rResult' = generateRecipe(rChat)
  /\ rpc' = "done"
  /\ UNCHANGED <<rChat, vvars, bvars, pvars,
                 nvars, svars>>

RNext == Recover

SpecRecover == RInit /\ [][RNext]_vars

\* ------------------------------------------------------------------
\* Normalization runs: normalizeRecipeData on a parsed value, and again on
\* what it returned
\* ------------------------------------------------------------------

\* parsed values whose summary, sections, items or steps are no objects, or
\* whose numeric fields hold text that is no number
LooseValues ==
  { SetAt(Good, <<"summary">>, JStr("quick")),
    SetAt(Good, <<"summary", "timeTotalMin">>, JStr("soon")),
    SetAt(Good, <<"summary", "timeActiveMin">>, JStr(" 12.7min")),
    SetAt(Good, <<"summary", "servings">>, JStr("-3")),
    SetAt(Good, <<"ingredients">>, JArr(<<JStr("eggs"), JNum(2)>>)),
    SetAt(Good, <<"ingredients", "0", "items">>, JArr(<<JStr("egg"), JNum(2), JBool(TRUE)>>)),
    SetAt(Good, <<"ingredients", "0", "items">>, JStr("eggs")),
    SetAt(Good, <<"steps">>, JArr(<<JStr("mix"), JNum(1)>>)),
    SetAt(Good, <<"steps", "0", "timerSec">>, JStr("later")),
    Recipe(StoryContentMin, <<Item(JStr(" to taste "), JStr("  "))>>, <<>>),
    Recipe(StoryContentMin, <<Item(JStr("some"), JStr("g"))>>, <<>>),
    Recipe(StoryContentMin, <<Item(JStr("  "), JStr(""))>>, <<>>),
    Recipe(StoryContentMin, <<Item(JStr("some"), JNull)>>, <<>>),
    Recipe(StoryContentMin, <<Item(JStr("2.5"), JStr(""))>>, <<>>),
    Recipe(StoryContentMin, <<Item(JStr("-.5 cup"), JStr("cup"))>>, <<>>) }

NInit ==
  /\ npc = "value"
  /\ nIn \in ParsedValues \cup LooseValues
  /\ nOnce = NotRun
  /\ nTwice = NotRun
  /\ VIdle
  /\ RIdle
  /\ BIdle
  /\ PIdle
  /\ SIdle

Normalize ==
  /\ npc = "value"
  /\ nOnce' = normalizeRecipeData(nIn)
  /\ npc' = "once"
  /\ UNCHANGED <<nIn, nTwice, vvars, rvars, bvars, pvars, svars>>

\* the caller hands the returned value to normalizeRecipeData again
NormalizeAgain ==
  /\ npc = "once"
  /\ ~nOnce.thrown
  /\ nTwice' = normalizeRecipeData(nOnce.value)
  /\ npc' = "twice"
  /\ UNCHANGED <<nIn, nOnce, vvars, rvars, bvars, pvars, svars>>

NNext == Normalize \/ NormalizeAgain

SpecNormalize == NInit /\ [][NNext]_vars

\* ------------------------------------------------------------------
\* Text runs: the text of a response through cleanAIResponse, JSON.parse
\* and normalizeRecipeData, as generateRecipe (lines 346-382) calls them
\* ------------------------------------------------------------------

\* a response holds one ingredient item; the field key, the separator after
\* its name and the value as the model wrote it vary
Body(key, sep, val) ==
  Chars("{\"ingredients\": [{\"items\": [{\"name\": \"egg\", ")
    \o <<"\"">> \o Chars(key) \o <<"\"">> \o Chars(sep) \o val
    \o Chars("}]}]}")

\* line 346: response.content, put together from an opening, the item with
\* its field, and a closing
SInit ==
  LET
      Separators == {":", ": ", " : ", ":  ", ":\n      "}

      Value(val, kind) == [val |-> val, kind |-> kind, n |-> 0, d |-> 0]
      Fraction(n, d) ==
        [val |-> ToString(n) \o "/" \o ToString(d), kind |-> "fraction", n |-> n, d |-> d]

      \* values of the kinds line 250 tells apart
      Values ==
        { Value("5", "number"), Value("0.5", "number"), Value("12", "number"),
          Value("\"g\"", "string"), Value("\"a pinch\"", "string"), Value("\"\"", "string"),
          Value("{\"min\": 1}", "opener"), Value("[1, 2]", "opener"),
          Value("-1", "minus"),
          Value("null", "null"),
          Value("some", "bare"), Value("a pinch", "bare"), Value("say \"hi\"", "bare"),
          Value("true", "bare") }

      Fractions ==
        { Fraction(1, 2), Fraction(1, 3), Fraction(2, 3), Fraction(1, 4), Fraction(3, 4),
          Fraction(5, 2), Fraction(7, 4), Fraction(12, 5), Fraction(6, 3), Fraction(0, 5),
          Fraction(11, 2), Fraction(1, 5), Fraction(1, 10), Fraction(21, 4),
          Fraction(1, 25), Fraction(1, 20), Fraction(3, 40), Fraction(1, 0) }

      \* what stands before and behind the JSON of a response
      Openings ==
        { Fence \o Chars("json\n"), Fence \o Chars("JSON "), Fence \o Chars("\n"), Fence,
          Chars("Here is the recipe:\n") \o Fence \o Chars("json\n"), <<>> }
      Closings ==
        { Chars("\n") \o Fence, Fence, Chars("  ") \o Fence,
          Chars("\n") \o Fence \o Chars("\nEnjoy!"), <<>> }

      \* values with a URL, a comment, a trailing comma behind them
      FencedValues ==
        { Value("\"g\"", "string"), Value("\"https://example.com/egg.png\"", "string"),
          Value("\"g\" // grams", "string"), Value("\"g\" // grams\n", "string"),
          Value("\"g\" /* grams */", "string"), Value("\"g\",\n", "string"),
          Value("1, \"notes\": \"1//2 cup\"", "number") }

      Input(family, open, close, key, sep, value) ==
        [family |-> family, open |-> open, close |-> close, key |-> key, sep |-> sep,
         val |-> value.val, kind |-> value.kind, n |-> value.n, d |-> value.d,
         doc |-> JUndef]

      \* a whole recipe whose one item has no notes, notes that are a string,
      \* or notes written as null, as the example of the prompt (lines 134-140)
      \* has them
      NotedItems ==
        { [kind |-> "absent", item |-> Item(JNum(3), JStr("pcs"))],
          [kind |-> "string", item |-> ItemWithNotes(JNum(3), JStr("pcs"), JStr("ripe"))],
          [kind |-> "null", item |-> ItemWithNotes(JNum(3), JStr("pcs"), JNull)] }

      RecipeInput(open, close, sep, noted) ==
        [family |-> "recipe", open |-> open, close |-> close, key |-> "notes", sep |-> sep,
         val |-> "", kind |-> noted.kind, n |-> 0, d |-> 0,
         doc |-> Recipe(StoryContentMin, <<noted.item>>, <<Shot("cover", "16:9")>>)]

      \* a value as the model writes it out, sep between a key and its value
      RECURSIVE Write(_, _), WriteMembers(_, _, _), WriteElements(_, _)
      Write(v, sep) ==
        CASE v.t = "null" -> Chars("null")
          [] v.t = "bool" -> IF v.b THEN Chars("true") ELSE Chars("false")
          [] v.t = "num" ->
               Chars(ToString(v.n \div Scale))
                 \o (IF v.n % Scale = 0 THEN <<>>
                     ELSE <<".">> \o Chars(ToString((v.n % Scale) \div 10))
                                 \o Chars(ToString(v.n % 10)))
          [] v.t = "str" -> <<"\"">> \o Chars(v.s) \o <<"\"">>
          [] v.t = "arr" -> <<"[">> \o WriteElements(v.a, sep) \o <<"]">>
          [] v.t = "obj" -> <<"{">> \o WriteMembers(v.o, DOMAIN v.o, sep) \o <<"}">>
      WriteMembers(o, keys, sep) ==
        IF keys = {} THEN <<>>
        ELSE LET k == CHOOSE x \in keys : TRUE
             IN <<"\"">> \o Chars(k) \o <<"\"">> \o Chars(sep) \o Write(o[k], sep)
                  \o (IF keys = {k} THEN <<>> ELSE Chars(",\n  "))
                  \o WriteMembers(o, keys \ {k}, sep)
      WriteElements(a, sep) ==
        IF a = <<>> THEN <<>>
        ELSE Write(Head(a), sep)
               \o (IF Len(a) = 1 THEN <<>> ELSE Chars(", "))
               \o WriteElements(Tail(a), sep)

      TextInputs ==
        { Input("value", <<>>, <<>>, key, sep, value) :
            key \in {"amount", "unit", "notes"}, sep \in Separators, value \in Values }
        \cup { Input("fraction", open, <<>>, "amount", sep, value) :
                 open \in {<<>>, Fence \o Chars("json\n")}, sep \in {":", ": ", " : "},
                 value \in Fractions }
        \cup { Input("fence", open, close, "unit", ": ", value) :
                 open \in Openings, close \in Closings, value \in FencedValues }
        \cup { RecipeInput(open, <<>>, sep, noted) :
                 open \in {<<>>, Chars("Here is the recipe:\n")}, sep \in {":", ": "},
                 noted \in NotedItems }
        \cup { RecipeInput(Fence \o Chars("json\n"), Chars("\n") \o Fence, sep, noted) :
                 sep \in {":", ": "}, noted \in NotedItems }

      Raw(input) ==
        input.open
          \o (IF input.family = "recipe" THEN Write(input.doc, input.sep)
              ELSE Body(input.key, input.sep, Chars(input.val)))
          \o input.close
  IN
  /\ spc = "raw"
  /\ sInput \in TextInputs
  /\ sRaw = Raw(sInput)
  /\ sClean = <<>>
  /\ sParsed = ParseThrew
  /\ sNormal = NotRun
  /\ sValid = NoResult
  /\ VIdle
  /\ RIdle
  /\ BIdle
  /\ PIdle
  /\ NIdle

\* line 346
Sanitize ==
  /\ spc = "raw"
  /\ sClean' = cleanAIResponse(sRaw)
  /\ spc' = "cleaned"
  /\ UNCHANGED <<sInput, sRaw, sParsed, sNormal, sValid, vvars, rvars, bvars, pvars, nvars>>

\* line 350
ParseJson ==
  /\ spc = "cleaned"
  /\ sParsed' = JSONParse(sClean)
  /\ spc' = "parsed"
  /\ UNCHANGED <<sInput, sRaw, sClean, sNormal, sValid, vvars, rvars, bvars, pvars, nvars>>

\* lines 353-382, when JSON.parse returned a value that is not null
NormalizeParsed ==
  /\ spc = "parsed"
  /\ sParsed.parsed /\ sParsed.value # JNull
  /\ sNormal' = normalizeRecipeData(Unwrap(sParsed.value))
  /\ spc' = "normalized"
  /\ UNCHANGED <<sInput, sRaw, sClean, sParsed, sValid, vvars, rvars, bvars, pvars, nvars>>

\* lines 385-398, when normalizeRecipeData returned
ValidateNormalized ==
  /\ spc = "normalized"
  /\ ~sNormal.thrown
  /\ sValid' = safeValidateRecipe(sNormal.value)
  /\ spc' = "validated"
  /\ UNCHANGED <<sInput, sRaw, sClean, sParsed, sNormal, vvars, rvars, bvars, pvars, nvars>>

SNext == Sanitize \/ ParseJson \/ NormalizeParsed \/ ValidateNormalized

SpecSanitize == SInit /\ [][SNext]_vars

\* ------------------------------------------------------------------
\* Batch runs: src/lib/ai/generate-recipe.ts : generateRecipesBatch
\* ------------------------------------------------------------------

MaxNames == 3

NameSeqs == UNION { [1..n -> {"soup", "rice"}] : n \in 0..MaxNames }

\* what the provider may do for one item of a batch
BatchChats ==
  {ChatThrew, ParseThrew, Parsed(Good), Parsed(RemoveAt(Good, <<"titleZh">>))}

Event(e, i, name, ok) == [e |-> e, i |-> i, total |-> Len(dishNames), name |-> name, ok |-> ok]

BInit ==
  /\ bpc = "loop"
  /\ dishNames \in NameSeqs
  /\ onProgress \in BOOLEAN
  /\ bi = 0
  /\ results = <<>>
  /\ successCount = 0
  /\ failedCount = 0
  /\ bReturn = NoReturn
  /\ bLog = <<>>
  /\ VIdle
  /\ RIdle
  /\ PIdle
  /\ NIdle
  /\ SIdle

\* lines 438-444, no callback supplied
SkipProgress ==
  /\ bpc = "loop" /\ bi < Len(dishNames) /\ ~onProgress
  /\ bpc' = "generate"
  /\ UNCHANGED <<dishNames, onProgress, bi, results, successCount, failedCount,
                 bReturn, bLog, vvars, rvars, pvars,
                 nvars, svars>>

\* lines 442-444, the callback returns
ProgressReturns ==
  /\ bpc = "loop" /\ bi < Len(dishNames) /\ onProgress
  /\ bLog' = Append(bLog, Event("progress", bi + 1, dishNames[bi + 1], TRUE))
  /\ bpc' = "generate"
  /\ UNCHANGED <<dishNames, onProgress, bi, results, successCount, failedCount,
                 bReturn, vvars, rvars, pvars,
                 nvars, svars>>

\* lines 442-444, the callback raises: the call is in no try block, so the
\* exception leaves the loop and rejects the promise the batch returned
ProgressThrows ==
  /\ bpc = "loop" /\ bi < Len(dishNames) /\ onProgress
  /\ bLog' = Append(bLog, Event("progress", bi + 1, dishNames[bi + 1], FALSE))
  /\ bpc' = "rejected"
  /\ UNCHANGED <<dishNames, onProgress, bi, results, successCount, failedCount,
                 bReturn, vvars, rvars, pvars,
                 nvars, svars>>

\* lines 447-472: one recovery, its result pushed, then the pause or the
\* next turn of the loop
Generate ==
  /\ bpc = "generate"
  /\ \E chat \in BatchChats :
       LET dishName == dishNames[bi + 1]
           result == generateRecipe(chat)
       IN /\ bLog' = Append(bLog, Event("generate", bi + 1, dishName, result.success))
          /\ IF result.success
               THEN /\ successCount' = successCount + 1
                    /\ results' = Append(results,
                         [dishName |-> dishName, success |-> TRUE,
                          data |-> result.data, error |-> <<>>])
                    /\ UNCHANGED failedCount
               ELSE /\ failedCount' = failedCount + 1
                    /\ results' = Append(results,
                         [dishName |-> dishName, success |-> FALSE,
                          data |-> JUndef, error |-> <<result.prefix>> \o result.messages])
                    /\ UNCHANGED successCount
  /\ IF bi < Len(dishNames) - 1
       THEN bpc' = "pause" /\ bi' = bi
       ELSE bpc' = "loop" /\ bi' = bi + 1
  /\ UNCHANGED <<dishNames, onProgress, bReturn, vvars, rvars, pvars,
                 nvars, svars>>

\* lines 470-472: the one second pause
Pause ==
  /\ bpc = "pause"
  /\ bLog' = Append(bLog, Event("pause", bi + 1, dishNames[bi + 1], TRUE))
  /\ bi' = bi + 1
  /\ bpc' = "loop"
  /\ UNCHANGED <<dishNames, onProgress, results, successCount, failedCount,
                 bReturn, vvars, rvars, pvars,
                 nvars, svars>>

\* lines 475-479
Return ==
  /\ bpc = "loop" /\ bi >= Len(dishNames)
  /\ bReturn' = [success |-> successCount, failed |-> failedCount, results |-> results]
  /\ bpc' = "returned"
  /\ UNCHANGED <<dishNames, onProgress, bi, results, successCount, failedCount,
                 bLog, vvars, rvars, pvars,
                 nvars, svars>>

BNext ==
  \/ SkipProgress \/ ProgressReturns \/ ProgressThrows
  \/ Generate \/ Pause \/ Return

SpecBatch == BInit /\ [][BNext]_vars

\* ------------------------------------------------------------------
\* Requests: src/app/api/ai/generate-recipe/route.ts : POST
\* ------------------------------------------------------------------

MaxShots == 2

\* the shots a recipe may declare; the last two arrive with an imageUrl
ShotPool ==
  { Shot("hero", "16:9"), Shot("cover", "4:3"), Shot("step01", "3:2"),
    ShotWithUrl("step01", "4:3", "https://model.example/made-up.png"),
    ShotWithUrl("cover", "16:9", "https://model.example/made-up.png") }

ShotLists == UNION { [1..n -> ShotPool] : n \in 0..MaxShots }

RequestChats ==
  {ParseThrew} \cup { Parsed(Recipe(StoryContentMin, GoodItems, shots)) : shots \in ShotLists }

Bodies == [dishName : BOOLEAN, autoSave : {"true", "false", "absent"}]

\* Dimensions without the three tests of shot.ratio
Dimensions_Square(ratio) == [width |-> 1024, height |-> 1024]

\* lines 61-65
Dimensions(ratio) ==
  [width |-> 1024,
   height |-> CASE ratio = JStr("16:9") -> 576
                [] ratio = JStr("4:3") -> 768
                [] ratio = JStr("3:2") -> 683
                [] OTHER -> 1024]

\* the URL the image capability returns for shot k, and the one uploadImage
\* returns for it
GeneratedUrl(k) == JStr("https://evolink.example/" \o ToString(k))
StoredUrl(k) == JStr("https://r2.example/" \o ToString(k))
ImageFailure(k) == JStr("image " \o ToString(k) \o " failed")

IsCoverKey(shot) == Get(shot, "key") \in {JStr("hero"), JStr("cover")}

ShotEvent(e, k, size) == [e |-> e, k |-> k, size |-> size]
NoSize == [width |-> 0, height |-> 0]

Respond(status, success, cover, saved, error) ==
  pResponse' = [status |-> status, success |-> success, coverGenerated |-> cover,
                saved |-> saved, imageError |-> error]

PInit ==
  /\ ppc = "request"
  /\ pBody \in Bodies
  /\ pChat \in RequestChats
  /\ storage \in BOOLEAN
  /\ imageShots = <<>>
  /\ pk = 1
  /\ coverImage = JUndef
  /\ imageError = JUndef
  /\ pOutcome = <<>>
  /\ pReason = <<>>
  /\ pWrites = <<>>
  /\ pLog = <<>>
  /\ pSaved = <<>>
  /\ pResponse = NoResponse
  /\ VIdle
  /\ RIdle
  /\ BIdle
  /\ NIdle
  /\ SIdle

\* lines 18-23
BadRequest ==
  /\ ppc = "request" /\ ~pBody.dishName
  /\ Respond(400, FALSE, FALSE, FALSE, JUndef)
  /\ ppc' = "responded"
  /\ UNCHANGED <<pBody, pChat, storage, imageShots, pk, coverImage, imageError,
                 pOutcome, pReason, pWrites, pLog, pSaved, vvars, rvars, bvars,
                 nvars, svars>>

\* lines 26-38
GenerateFails ==
  /\ ppc = "request" /\ pBody.dishName
  /\ ~generateRecipe(pChat).success
  /\ Respond(500, FALSE, FALSE, FALSE, JUndef)
  /\ ppc' = "responded"
  /\ UNCHANGED <<pBody, pChat, storage, imageShots, pk, coverImage, imageError,
                 pOutcome, pReason, pWrites, pLog, pSaved, vvars, rvars, bvars,
                 nvars, svars>>

\* lines 41, 160-164: autoSave is false, the data is returned unsaved
ReturnUnsaved ==
  /\ ppc = "request" /\ pBody.dishName
  /\ generateRecipe(pChat).success
  /\ pBody.autoSave = "false"
  /\ Respond(200, TRUE, FALSE, FALSE, JUndef)
  /\ ppc' = "responded"
  /\ UNCHANGED <<pBody, pChat, storage, imageShots, pk, coverImage, imageError,
                 pOutcome, pReason, pWrites, pLog, pSaved, vvars, rvars, bvars,
                 nvars, svars>>

\* lines 41-54: the loop over result.data.imageShots begins
BeginShots ==
  /\ ppc = "request" /\ pBody.dishName
  /\ generateRecipe(pChat).success
  /\ pBody.autoSave # "false"
  /\ imageShots' = Get(generateRecipe(pChat).data, "imageShots").a
  /\ pOutcome' = [k \in 1..Len(imageShots') |-> "pending"]
  /\ pReason' = [k \in 1..Len(imageShots') |-> JUndef]
  /\ pWrites' = [k \in 1..Len(imageShots') |-> 0]
  /\ pk' = 1
  /\ ppc' = "loop"
  /\ UNCHANGED <<pBody, pChat, storage, coverImage, imageError, pLog, pSaved,
                 pResponse, vvars, rvars, bvars,
                 nvars, svars>>

\* the end of the loop body for shot pk
NextShot ==
  /\ pk' = pk + 1
  /\ ppc' = "loop"

\* lines 56-73: a shot without a prompt is skipped, for any other the image
\* capability is called
StartImage ==
  /\ ppc = "loop" /\ pk <= Len(imageShots)
  /\ IF ~Truthy(Get(imageShots[pk], "imagePrompt"))
       THEN NextShot /\ UNCHANGED pLog
       ELSE /\ pLog' = Append(pLog, ShotEvent("start", pk,
                         Dimensions(Get(imageShots[pk], "ratio"))))
            /\ ppc' = "image"
            /\ UNCHANGED pk
  /\ UNCHANGED <<pBody, pChat, storage, imageShots, coverImage, imageError,
                 pOutcome, pReason, pWrites, pSaved, pResponse, vvars, rvars, bvars,
                 nvars, svars>>

\* lines 97-102: the final URL is stored in the shot, and kept as the cover
\* when the shot is the hero or the cover
Assign(finalImageUrl) ==
  /\ imageShots' = [imageShots EXCEPT ![pk] = With(@, "imageUrl", finalImageUrl)]
  /\ pWrites' = [pWrites EXCEPT ![pk] = @ + 1]
  /\ coverImage' = IF IsCoverKey(imageShots[pk]) THEN finalImageUrl ELSE coverImage
  /\ NextShot

\* lines 75-80, 97-102: the capability returned a URL
ImageSucceeds ==
  /\ ppc = "image"
  /\ pOutcome' = [pOutcome EXCEPT ![pk] = "resolved"]
  /\ UNCHANGED pReason
  /\ IF storage
       THEN /\ ppc' = "fetch"
            /\ pLog' = Append(pLog, ShotEvent("end", pk, NoSize))
            /\ UNCHANGED <<imageShots, pWrites, coverImage, pk>>
       ELSE /\ Assign(GeneratedUrl(pk))
            /\ pLog' = pLog \o <<ShotEvent("end", pk, NoSize), ShotEvent("done", pk, NoSize)>>
  /\ UNCHANGED <<pBody, pChat, storage, imageError, pSaved, pResponse,
                 vvars, rvars, bvars,
                 nvars, svars>>

\* ImageFails answering the request with the error of the image: nothing
\* is stored
ImageFails_Responds ==
  /\ ppc = "image"
  /\ pOutcome' = [pOutcome EXCEPT ![pk] = "failed"]
  /\ pReason' = [pReason EXCEPT ![pk] = ImageFailure(pk)]
  /\ pLog' = pLog \o <<ShotEvent("end", pk, NoSize), ShotEvent("done", pk, NoSize)>>
  /\ Respond(500, FALSE, FALSE, FALSE, ImageFailure(pk))
  /\ ppc' = "responded"
  /\ UNCHANGED <<pBody, pChat, storage, imageShots, pk, coverImage, imageError, pWrites,
                 pSaved, vvars, rvars, bvars,
                 nvars, svars>>

\* lines 103-108: the capability returned no URL (success false, or success
\* without an imageUrl); the error, which may be missing, is kept only for
\* the hero and the cover
ImageFails ==
  /\ ppc = "image"
  /\ \E error \in {ImageFailure(pk), JUndef} :
       /\ imageError' = IF IsCoverKey(imageShots[pk]) THEN error ELSE imageError
       /\ pReason' = [pReason EXCEPT ![pk] = error]
  /\ pOutcome' = [pOutcome EXCEPT ![pk] = "failed"]
  /\ pLog' = pLog \o <<ShotEvent("end", pk, NoSize), ShotEvent("done", pk, NoSize)>>
  /\ NextShot
  /\ UNCHANGED <<pBody, pChat, storage, imageShots, coverImage, pWrites, pSaved,
                 pResponse, vvars, rvars, bvars,
                 nvars, svars>>

\* ImageThrows without the try block of the loop body: the exception ends
\* the loop and reaches the catch of lines 125-128
ImageThrows_Aborts ==
  /\ ppc = "image"
  /\ pOutcome' = [pOutcome EXCEPT ![pk] = "threw"]
  /\ pReason' = [pReason EXCEPT ![pk] = ImageFailure(pk)]
  /\ pLog' = pLog \o <<ShotEvent("end", pk, NoSize), ShotEvent("done", pk, NoSize)>>
  /\ imageError' = ImageFailure(pk)
  /\ ppc' = "save"
  /\ UNCHANGED <<pBody, pChat, storage, imageShots, pk, coverImage,
                 pWrites, pSaved, pResponse, vvars, rvars, bvars,
                 nvars, svars>>

\* lines 109-111: the capability raised; the catch of the loop body logs
ImageThrows ==
  /\ ppc = "image"
  /\ pOutcome' = [pOutcome EXCEPT ![pk] = "threw"]
  /\ pReason' = [pReason EXCEPT ![pk] = ImageFailure(pk)]
  /\ pLog' = pLog \o <<ShotEvent("end", pk, NoSize), ShotEvent("done", pk, NoSize)>>
  /\ NextShot
  /\ UNCHANGED <<pBody, pChat, storage, imageShots, coverImage, imageError,
                 pWrites, pSaved, pResponse, vvars, rvars, bvars,
                 nvars, svars>>

\* lines 83-84, 92-94: fetch raised, or answered not ok: the original URL stays
FetchFails ==
  /\ ppc = "fetch"
  /\ Assign(GeneratedUrl(pk))
  /\ pLog' = pLog \o <<ShotEvent("fetch failed", pk, NoSize), ShotEvent("done", pk, NoSize)>>
  /\ UNCHANGED <<pBody, pChat, storage, imageError, pOutcome, pReason, pSaved, pResponse,
                 vvars, rvars, bvars,
                 nvars, svars>>

\* lines 84-87
FetchOk ==
  /\ ppc = "fetch"
  /\ ppc' = "upload"
  /\ UNCHANGED <<pBody, pChat, storage, imageShots, pk, coverImage, imageError,
                 pOutcome, pReason, pWrites, pLog, pSaved, pResponse, vvars, rvars, bvars,
                 nvars, svars>>

\* lines 89-90
UploadReturns ==
  /\ ppc = "upload"
  /\ Assign(StoredUrl(pk))
  /\ pLog' = pLog \o <<ShotEvent("uploaded", pk, NoSize), ShotEvent("done", pk, NoSize)>>
  /\ UNCHANGED <<pBody, pChat, storage, imageError, pOutcome, pReason, pSaved, pResponse,
                 vvars, rvars, bvars,
                 nvars, svars>>

\* UploadThrows without the try block of lines 81-94: the exception reaches
\* the catch of the loop body, and line 97 is not executed
UploadThrows_Escapes ==
  /\ ppc = "upload"
  /\ pLog' = pLog \o <<ShotEvent("upload threw", pk, NoSize), ShotEvent("done", pk, NoSize)>>
  /\ NextShot
  /\ UNCHANGED <<pBody, pChat, storage, imageShots, coverImage, pWrites, imageError,
                 pOutcome, pReason, pSaved, pResponse, vvars, rvars, bvars,
                 nvars, svars>>

\* lines 85-94: reading the bytes, naming the file or uploadImage raised
UploadThrows ==
  /\ ppc = "upload"
  /\ Assign(GeneratedUrl(pk))
  /\ pLog' = pLog \o <<ShotEvent("upload threw", pk, NoSize), ShotEvent("done", pk, NoSize)>>
  /\ UNCHANGED <<pBody, pChat, storage, imageError, pOutcome, pReason, pSaved, pResponse,
                 vvars, rvars, bvars,
                 nvars, svars>>

\* lines 118-123: without a cover, the first shot that has an imageUrl
FallbackCover ==
  IF ~Truthy(coverImage) /\ \E k \in 1..Len(imageShots) : Truthy(Get(imageShots[k], "imageUrl"))
    THEN LET first == CHOOSE k \in 1..Len(imageShots) :
                        /\ Truthy(Get(imageShots[k], "imageUrl"))
                        /\ \A j \in 1..(k - 1) : ~Truthy(Get(imageShots[j], "imageUrl"))
         IN Get(imageShots[first], "imageUrl")
    ELSE coverImage

\* lines 114-124: the loop is over
EndShots ==
  /\ ppc = "loop" /\ pk > Len(imageShots)
  /\ coverImage' = FallbackCover
  /\ ppc' = "save"
  /\ UNCHANGED <<pBody, pChat, storage, imageShots, pk, imageError, pOutcome, pReason,
                 pWrites, pLog, pSaved, pResponse, vvars, rvars, bvars,
                 nvars, svars>>

\* lines 130-156: the recipe is stored and the response says whether it has
\* a cover
Persist ==
  /\ ppc = "save"
  /\ pSaved' = Append(pSaved, [coverImage |-> coverImage, imageShots |-> imageShots])
  /\ pLog' = Append(pLog, ShotEvent("create", 0, NoSize))
  /\ Respond(200, TRUE, Truthy(coverImage), TRUE, imageError)
  /\ ppc' = "responded"
  /\ UNCHANGED <<pBody, pChat, storage, imageShots, pk, coverImage, imageError,
                 pOutcome, pReason, pWrites, vvars, rvars, bvars,
                 nvars, svars>>

\* lines 130, 165-171: prisma.recipe.create raised
PersistThrows ==
  /\ ppc = "save"
  /\ pLog' = Append(pLog, ShotEvent("create", 0, NoSize))
  /\ Respond(500, FALSE, FALSE, FALSE, JUndef)
  /\ ppc' = "responded"
  /\ UNCHANGED <<pBody, pChat, storage, imageShots, pk, coverImage, imageError,
                 pOutcome, pReason, pWrites, pSaved, vvars, rvars, bvars,
                 nvars, svars>>

PNext ==
  \/ BadRequest \/ GenerateFails \/ ReturnUnsaved \/ BeginShots
  \/ StartImage \/ ImageSucceeds \/ ImageFails \/ ImageThrows
  \/ FetchFails \/ FetchOk \/ UploadReturns \/ UploadThrows
  \/ EndShots \/ Persist \/ PersistThrows

SpecPost == PInit /\ [][PNext]_vars

\* ------------------------------------------------------------------
\* C9: what validate accepts and rejects
\* ------------------------------------------------------------------

NonEmptyStr(v) == v.t = "str" /\ Len(v.s) >= 1
OptionalStr(v) == v.t \in {"undef", "str"}
EnumStr(v, values) == v.t = "str" /\ v.s \in values
PositiveNum(v) == v.t = "num" /\ v.n > 0
NonEmptyArr(v) == v.t = "arr" /\ Len(v.a) >= 1
Each(v, P(_)) == \A i \in 1..Len(v.a) : P(v.a[i])

ItemOK(v) ==
  /\ v.t = "obj"
  /\ NonEmptyStr(Get(v, "name")) /\ EnumStr(Get(v, "iconKey"), IconKeyEnum)
  /\ PositiveNum(Get(v, "amount")) /\ NonEmptyStr(Get(v, "unit"))
  /\ OptionalStr(Get(v, "notes"))

SectionOK(v) ==
  /\ v.t = "obj"
  /\ NonEmptyStr(Get(v, "section"))
  /\ NonEmptyArr(Get(v, "items")) /\ Each(Get(v, "items"), ItemOK)

StepOK(v) ==
  /\ v.t = "obj"
  /\ \A k \in StepFields \ {"timerSec"} : NonEmptyStr(Get(v, k))
  /\ Get(v, "timerSec").t = "num" /\ Get(v, "timerSec").n >= 0

ShotOK(v) ==
  /\ v.t = "obj"
  /\ NonEmptyStr(Get(v, "key")) /\ NonEmptyStr(Get(v, "imagePrompt"))
  /\ EnumStr(Get(v, "ratio"), RatioEnum) /\ OptionalStr(Get(v, "imageUrl"))

IsStr(v) == v.t = "str"

\* every required field the data model of the specification enumerates is
\* present and within its stated bounds
DataModelOK(doc) ==
  /\ doc.t = "obj"
  /\ Get(doc, "schemaVersion") = JStr("1.1.0")
  /\ NonEmptyStr(Get(doc, "titleZh")) /\ OptionalStr(Get(doc, "titleEn"))
  /\ LET s == Get(doc, "summary")
     IN /\ s.t = "obj"
        /\ EnumStr(Get(s, "difficulty"), DifficultyEnum)
        /\ \A k \in {"timeTotalMin", "timeActiveMin", "servings"} : PositiveNum(Get(s, k))
  /\ LET s == Get(doc, "story")
     IN /\ s.t = "obj"
        /\ Get(s, "content").t = "str"
        /\ Len(Get(s, "content").s) \in 50..500
        /\ NonEmptyArr(Get(s, "tags")) /\ Each(Get(s, "tags"), IsStr)
  /\ NonEmptyArr(Get(doc, "ingredients")) /\ Each(Get(doc, "ingredients"), SectionOK)
  /\ NonEmptyArr(Get(doc, "steps")) /\ Each(Get(doc, "steps"), StepOK)
  /\ LET g == Get(doc, "styleGuide")
     IN g.t = "obj" /\ \A k \in StyleGuideFields : NonEmptyStr(Get(g, k))
  /\ Get(doc, "imageShots").t = "arr" /\ Each(Get(doc, "imageShots"), ShotOK)

\* the three fields the schema requires and the data model does not list
UnlistedFieldsOK(doc) ==
  /\ NonEmptyStr(Get(Get(doc, "summary"), "oneLine"))
  /\ NonEmptyStr(Get(Get(doc, "summary"), "healingTone"))
  /\ NonEmptyStr(Get(Get(doc, "story"), "title"))

HasIssueAt(result, path) == \E i \in 1..Len(result.issues) : result.issues[i].path = path

\* a changed document (one required field removed, or story.content of 49 or
\* 501 characters) is rejected with an issue at the changed field
ChangedIsRejected ==
  vMut.kind \in {"remove", "resize"} =>
    ~vResult.success /\ HasIssueAt(vResult, vMut.path)

\* C9 as stated: validate accepts every document that has all the required
\* fields the data model enumerates, present and within their bounds, and
\* rejects a changed document with an issue at the changed field.
C9_AsStated ==
  vpc = "validated" =>
    /\ (DataModelOK(vDoc) => vResult.success)
    /\ ChangedIsRejected

\* C9 as amended: validate accepts every document that has all the fields
\* the data model enumerates and also summary.oneLine, summary.healingTone and
\* story.title as non-empty strings, all within bounds (story.content of 50
\* to 500 characters included), and rejects, with an issue at the changed
\* field, a document with one required field removed or with story.content
\* of 49 or 501 characters.
C9_ValidateAcceptsAndRejects ==
  vpc = "validated" =>
    /\ (DataModelOK(vDoc) /\ UnlistedFieldsOK(vDoc) => vResult.success)
    /\ ChangedIsRejected

\* C9 witness: a well-formed document at the upper bound was accepted, or a
\* document of 501 characters was rejected
C9_Witness ==
  /\ vpc = "validated"
  /\ \/ /\ vMut.kind = "none" /\ vResult.success
        /\ Len(Get(Get(vDoc, "story"), "content").s) = StoryContentMax
     \/ /\ vMut.kind = "resize" /\ vMut.len = StoryContentMax + 1
        /\ ~vResult.success

\* ------------------------------------------------------------------
\* C3: the kinds of failure generateRecipe returns
\* ------------------------------------------------------------------

\* the parsed, unwrapped and normalized value fails validation
FailsValidation(chat) ==
  /\ chat.parsed
  /\ ~normalizeRecipeData(Unwrap(chat.value)).thrown
  /\ ~safeValidateRecipe(normalizeRecipeData(Unwrap(chat.value)).value).success

\* C3 as stated: generateRecipe returns a success carrying a validated
\* document or a failure; the failure is Malformed exactly when the sanitized
\* text does not parse, SchemaInvalid exactly when the parsed, unwrapped and
\* normalized value fails validation, UpstreamFailure exactly when the text
\* provider itself failed.
C3_AsStated ==
  rpc = "done" =>
    /\ rResult.success => RecipeSchema(rResult.data) = <<>>
    /\ Kind(rResult) = "Malformed" <=> (rChat.kind = "text" /\ ~rChat.parsed)
    /\ Kind(rResult) = "SchemaInvalid" <=> FailsValidation(rChat)
    /\ Kind(rResult) = "UpstreamFailure" <=> rChat.kind = "throw"

\* ------------------------------------------------------------------
\* C10: the envelope unwrap
\* ------------------------------------------------------------------

\* the union of the sibling fields and the fields of the recipe object, the
\* recipe object's value winning
MergedFields(v) ==
  LET recipe == Get(v, "recipe").o
      siblings == Without(v, "recipe").o
  IN JObj([k \in DOMAIN siblings \cup DOMAIN recipe |->
             IF k \in DOMAIN recipe THEN recipe[k] ELSE siblings[k]])

\* C10 as stated: with an object-valued recipe field the value passed to
\* normalize is the union of the sibling fields and the recipe object's
\* fields, the recipe object's winning, and has no recipe field; without one
\* the parsed value is passed on unchanged.
C10_AsStated ==
  rpc = "done" /\ rChat.parsed =>
    IF Get(rChat.value, "recipe").t = "obj"
      THEN /\ rResult.passed = MergedFields(rChat.value)
           /\ "recipe" \notin DOMAIN rResult.passed.o
      ELSE rResult.passed = rChat.value

\* ------------------------------------------------------------------
\* C1, C7, C8: the batch
\* ------------------------------------------------------------------

BatchEnded == bpc \in {"returned", "rejected"}

Events(e) == SelectSeq(bLog, LAMBDA x : x.e = e)

Count(e, ok) == Len(SelectSeq(bLog, LAMBDA x : x.e = e /\ x.ok = ok))

\* C7 as stated: when the progress callback raises for item i the batch does
\* not abort: item i and all later items are processed and the report is
\* returned.
C7_AsStated ==
  BatchEnded /\ Count("progress", FALSE) > 0 =>
    /\ bpc = "returned"
    /\ Len(bReturn.results) = Len(dishNames)
    /\ Len(Events("generate")) = Len(dishNames)

\* C1 as stated: the batch processes every name and returns n results, the
\* i-th for the i-th name, success the number of items that recovered, failed
\* the number that did not, success + failed = n.
C1_AsStated ==
  BatchEnded =>
    /\ bpc = "returned"
    /\ Len(bReturn.results) = Len(dishNames)
    /\ \A i \in 1..Len(bReturn.results) : bReturn.results[i].dishName = dishNames[i]
    /\ bReturn.success = Count("generate", TRUE)
    /\ bReturn.failed = Count("generate", FALSE)
    /\ bReturn.success + bReturn.failed = Len(dishNames)

\* C8 as stated: a supplied callback is invoked exactly n times, with
\* (i, n, names[i]) for i = 1..n in increasing order, each time before the
\* recovery of item i starts.
C8_AsStated ==
  BatchEnded /\ onProgress =>
    /\ Len(Events("progress")) = Len(dishNames)
    /\ \A i \in 1..Len(Events("progress")) :
         /\ Events("progress")[i].i = i
         /\ Events("progress")[i].total = Len(dishNames)
         /\ Events("progress")[i].name = dishNames[i]
    /\ \A p \in 1..Len(bLog) :
         bLog[p].e = "generate" =>
           \E q \in 1..(p - 1) : bLog[q].e = "progress" /\ bLog[q].i = bLog[p].i

\* ------------------------------------------------------------------
\* C2, C4, C5, C6: the image shots of a request
\* ------------------------------------------------------------------

\* the loop over the shots is over
ShotsDone == ppc = "save" \/ (ppc = "responded" /\ pResponse.saved)

Resolved(k) == pOutcome[k] = "resolved"
FinalUrl(k) == Get(imageShots[k], "imageUrl")
Started == SelectSeq(pLog, LAMBDA x : x.e = "start")
WithPrompt == { k \in 1..Len(imageShots) : Truthy(Get(imageShots[k], "imagePrompt")) }

\* C4: the image capability is called once for every shot that has a
\* prompt, in declared order; the call for a shot starts only when every
\* earlier shot is finished, its re-hosting included; a shot that failed or
\* raised does not keep the later shots from being called.
C4_SequentialNeverAborted ==
  /\ \A p \in 1..Len(pLog) :
       pLog[p].e = "start" =>
         /\ pLog[p].k = 1 + Cardinality({q \in 1..(p - 1) : pLog[q].e = "start"})
         /\ \A j \in 1..(pLog[p].k - 1) :
              \E q \in 1..(p - 1) : pLog[q].e = "done" /\ pLog[q].k = j
  /\ \A p \in 1..Len(pLog) :
       pLog[p].e = "end" => p > 1 /\ pLog[p - 1] .e = "start" /\ pLog[p - 1].k = pLog[p].k
  /\ ShotsDone => Len(Started) = Cardinality(WithPrompt)

\* C4 witness: the first shot raised, the second was re-hosted, a third call
\* or the end of the loop followed
C4_Witness ==
  /\ ShotsDone /\ Len(imageShots) >= 2 /\ storage
  /\ pOutcome[1] = "threw" /\ pOutcome[2] = "resolved"
  /\ FinalUrl(2) = StoredUrl(2)

\* C5 as stated: after the shots are resolved a shot has an imageUrl only if
\* its own generation succeeded and none if it failed or raised, and its
\* imageUrl was written at most once.
C5_AsStated ==
  ShotsDone =>
    \A k \in 1..Len(imageShots) :
      /\ FinalUrl(k) # JUndef => Resolved(k)
      /\ pWrites[k] <= 1

\* C2 as stated: the cover is the final URL of a resolved hero or cover
\* shot; without one, the URL of the first resolved shot; with no resolved
\* shot there is no cover and the response says it is missing.
C2_AsStated ==
  ppc = "responded" /\ pResponse.saved =>
    LET cover == pSaved[1].coverImage
        heroes == { k \in 1..Len(imageShots) : Resolved(k) /\ IsCoverKey(imageShots[k]) }
        resolved == { k \in 1..Len(imageShots) : Resolved(k) }
    IN IF heroes # {} THEN \E k \in heroes : cover = FinalUrl(k)
       ELSE IF resolved # {}
         THEN cover = FinalUrl(CHOOSE k \in resolved : \A j \in resolved : k <= j)
         ELSE cover = JUndef /\ ~pResponse.coverGenerated

\* C6 as stated: the reason of every shot that failed or raised, whatever
\* its key, is in the response, and the request is still answered with
\* success.
C6_AsStated ==
  ppc = "responded" /\ pResponse.saved =>
    /\ pResponse.success
    /\ \A k \in 1..Len(imageShots) :
         pOutcome[k] \in {"failed", "threw"} /\ pReason[k] # JUndef =>
           pResponse.imageError = pReason[k]

\* ------------------------------------------------------------------
\* C14, C15: normalizeRecipeData
\* ------------------------------------------------------------------

\* C14: normalizeRecipeData is idempotent: when it returns for a parsed
\* value, it returns for its own result too, and returns that result
\* unchanged, also when a numeric field held text that is no number and
\* when the unit of an ingredient was empty.
C14_NormalizeIdempotent ==
  npc = "twice" => ~nTwice.thrown /\ nTwice.value = nOnce.value

\* C14 witness: an amount that is no number, with a blank unit, was replaced
\* by 1 and its text moved to the unit, and the value was normalized again
C14_Witness ==
  /\ npc = "twice"
  /\ nIn = Recipe(StoryContentMin, <<Item(JStr(" to taste "), JStr("  "))>>, <<>>)
  /\ nOnce.value = Recipe(StoryContentMin, <<Item(JNum(1), JStr("to taste"))>>, <<>>)

\* C15 as stated: normalizeRecipeData returns a value for every value JSON
\* parsing can produce, sections, items and steps that are null or no
\* objects included; it never raises.
C15_AsStated ==
  npc \in {"once", "twice"} => ~nOnce.thrown

\* ------------------------------------------------------------------
\* C17: the messages of a schema failure
\* ------------------------------------------------------------------

\* C17: a schema failure of generateRecipe carries the message of every
\* issue the validator found for the normalized value, in the validator's
\* order, not only the first.
C17_AllIssueMessages ==
  rpc = "done" /\ Kind(rResult) = "SchemaInvalid" =>
    LET issues == RecipeSchema(normalizeRecipeData(Unwrap(rChat.value)).value)
    IN /\ Len(issues) >= 1
       /\ Len(rResult.messages) = Len(issues)
       /\ \A i \in 1..Len(issues) : rResult.messages[i] = issues[i].message

\* C17 witness: a schema failure with two issues at different fields
C17_Witness ==
  /\ rpc = "done"
  /\ Kind(rResult) = "SchemaInvalid"
  /\ Len(rResult.messages) >= 2
  /\ rResult.messages[1] # rResult.messages[2]

\* ------------------------------------------------------------------
\* C18: the pauses of a batch
\* ------------------------------------------------------------------

\* C18 as stated: a batch over n names pauses exactly n - 1 times (never for
\* n <= 1): once after every item but the last, after the recovery of item i
\* and before item i + 1 starts, and never after the last item.
C18_AsStated ==
  BatchEnded =>
    /\ Len(Events("pause")) = (IF dishNames = <<>> THEN 0 ELSE Len(dishNames) - 1)
    /\ \A p \in 1..Len(bLog) :
         bLog[p].e = "pause" =>
           /\ bLog[p].i < Len(dishNames)
           /\ p > 1 /\ bLog[p - 1].e = "generate" /\ bLog[p - 1].i = bLog[p].i
           /\ \A q \in 1..(p - 1) : bLog[q].i <= bLog[p].i

\* ------------------------------------------------------------------
\* C16, C19, C20: re-hosting, dimensions, persistence
\* ------------------------------------------------------------------

\* what became of the re-hosting of shot k
Rehosted(k, e) == \E p \in 1..Len(pLog) : pLog[p].e = e /\ pLog[p].k = k

\* C16: re-hosting is best effort.  For a shot whose image was generated:
\* without storage the shot keeps the URL the image capability returned; with
\* storage, when fetch raised or answered not ok, or the upload raised, it
\* keeps that URL too and is still resolved; when the upload returned, its
\* imageUrl is the storage URL.
C16_RehostBestEffort ==
  ShotsDone =>
    \A k \in 1..Len(imageShots) :
      Resolved(k) =>
        /\ ~storage => FinalUrl(k) = GeneratedUrl(k)
        /\ Rehosted(k, "fetch failed") \/ Rehosted(k, "upload threw") =>
             FinalUrl(k) = GeneratedUrl(k)
        /\ Rehosted(k, "uploaded") => FinalUrl(k) = StoredUrl(k)
        /\ storage =>
             Rehosted(k, "fetch failed") \/ Rehosted(k, "upload threw") \/ Rehosted(k, "uploaded")

\* C16 witness: the upload of the first shot raised and the shot kept the
\* URL of the image capability; the second shot was stored
C16_Witness ==
  /\ ShotsDone /\ storage /\ Len(imageShots) >= 2
  /\ Resolved(1) /\ Rehosted(1, "upload threw") /\ FinalUrl(1) = GeneratedUrl(1)
  /\ Resolved(2) /\ Rehosted(2, "uploaded") /\ FinalUrl(2) = StoredUrl(2)

\* C19: the size passed to the image capability depends on the ratio of the
\* shot only: the width is 1024, the height 576 for 16:9, 768 for 4:3, 683
\* for 3:2, and 1024 for any other ratio.
C19_DimensionsByRatio ==
  /\ \A p \in 1..Len(pLog) :
       pLog[p].e = "start" =>
         LET ratio == Get(imageShots[pLog[p].k], "ratio")
         IN /\ pLog[p].size.width = 1024
            /\ ratio = JStr("16:9") => pLog[p].size.height = 576
            /\ ratio = JStr("4:3") => pLog[p].size.height = 768
            /\ ratio = JStr("3:2") => pLog[p].size.height = 683
            /\ ratio \notin {JStr("16:9"), JStr("4:3"), JStr("3:2")} =>
                 pLog[p].size.height = 1024
  /\ \A other \in {JStr("1:1"), JStr("9:16"), JStr(""), JUndef, JNull} :
       Dimensions(other) = [width |-> 1024, height |-> 1024]

\* C19 witness: the image capability was called for a 3:2 shot and for a
\* 16:9 shot
C19_Witness ==
  /\ \E p \in 1..Len(pLog) : pLog[p].e = "start" /\ pLog[p].size.height = 683
  /\ \E p \in 1..Len(pLog) : pLog[p].e = "start" /\ pLog[p].size.height = 576

\* calls of prisma.recipe.create
Creates == SelectSeq(pLog, LAMBDA x : x.e = "create")

\* C20: failed shots do not fail the request.  When generateRecipe succeeded
\* and autoSave is not false, prisma.recipe.create is called exactly once,
\* after every shot is finished, whether all, some or no shots resolved, and
\* when it returns the recipe is stored once and the response is a success;
\* when generateRecipe failed, the image capability and
\* prisma.recipe.create are not called.
C20_PersistedOnceAfterShots ==
  /\ Len(Creates) <= 1 /\ Len(pSaved) <= Len(Creates)
  /\ ppc = "responded" =>
       IF generateRecipe(pChat).success
         THEN pBody.dishName /\ pBody.autoSave # "false" =>
                /\ Len(Creates) = 1
                /\ pLog[Len(pLog)].e = "create"
                /\ \A k \in 1..Len(imageShots) :
                     /\ pOutcome[k] \in {"resolved", "failed", "threw"}
                     /\ \E p \in 1..Len(pLog) : pLog[p].e = "done" /\ pLog[p].k = k
                /\ pSaved # <<>> =>
                     /\ pResponse.success /\ pResponse.status = 200
                     /\ pSaved[1].imageShots = imageShots
         ELSE pLog = <<>> /\ pSaved = <<>>

\* C20 witness: of two shots one failed and one raised, and the recipe was
\* stored and the request answered with success
C20_Witness ==
  /\ ppc = "responded" /\ Len(imageShots) = 2
  /\ pOutcome[1] = "failed" /\ pOutcome[2] = "threw"
  /\ Len(pSaved) = 1 /\ pResponse.success

\* ------------------------------------------------------------------
\* C11, C12, C13: the text of a response through cleanAIResponse
\* ------------------------------------------------------------------

\* the item of the one ingredient section of a text input, in a parsed value
OnlyItem(v) == Get(Get(v, "ingredients").a[1], "items").a[1]

RECURSIVE Escaped(_)
Escaped(cs) ==
  IF cs = <<>> THEN <<>>
  ELSE (IF Head(cs) = "\"" THEN <<"\\", "\"">> ELSE <<Head(cs)>>) \o Escaped(Tail(cs))

\* the texts the rewriting of the field of an input may give: the value as
\* written for the four protected kinds, null for null, the quoted token
\* otherwise; the white space after the colon may be kept or become one space
ExpectedTexts(input) ==
  CASE input.kind \in {"number", "string", "opener", "minus"} ->
         { Body(input.key, input.sep, Chars(input.val)) }
    [] input.kind = "null" ->
         { Body(input.key, sep, Chars("null")) : sep \in {input.sep, ": "} }
    [] OTHER ->
         { Body(input.key, sep, <<"\"">> \o Escaped(Chars(input.val)) \o <<"\"">>) :
             sep \in {input.sep, ": "} }

\* C11 as stated: sanitize rewrites the value of an amount, unit or notes
\* field only when it is a bare token: a numeric literal, a quoted string, an
\* object or array opener and a value starting with a minus sign are left
\* exactly as written, whatever white space follows the colon; null is
\* emitted as null; any other bare token is wrapped in double quotes with
\* its quotes escaped.
C11_AsStated ==
  spc # "raw" /\ sInput.family = "value" => sClean \in ExpectedTexts(sInput)

\* two decimal places: hundredths differs from 100 * n / d by less than one
NearQuotient(hundredths, n, d) ==
  /\ hundredths * d - n * Scale < d
  /\ n * Scale - hundredths * d < d

\* C12 as stated: for every amount written as a fraction n/d, d # 0, sanitize
\* puts a decimal literal of the value n/d (to two decimal places) in its
\* place, so that parsing reads a number of that value, and after normalize
\* the amount is a number of that value.
C12_AsStated ==
  sInput.family = "fraction" /\ sInput.d # 0 =>
    /\ spc \in {"parsed", "normalized"} =>
         /\ sParsed.parsed
         /\ OnlyItem(sParsed.value).t = "obj"
         /\ Get(OnlyItem(sParsed.value), "amount").t = "num"
         /\ NearQuotient(Get(OnlyItem(sParsed.value), "amount").n, sInput.n, sInput.d)
    /\ spc = "normalized" =>
         /\ ~sNormal.thrown
         /\ Get(OnlyItem(sNormal.value), "amount").t = "num"
         /\ NearQuotient(Get(OnlyItem(sNormal.value), "amount").n, sInput.n, sInput.d)

\* a text wrapped in a leading and a trailing fence, with braces inside
Wrapped(cs) ==
  /\ Len(cs) >= 2 * Len(Fence)
  /\ SubSeq(cs, 1, Len(Fence)) = Fence
  /\ SubSeq(cs, Len(cs) - Len(Fence) + 1, Len(cs)) = Fence
  /\ \E i, j \in DOMAIN cs : i < j /\ cs[i] = "{" /\ cs[j] = "}"

ValidButForNotes ==
  /\ sInput.family = "recipe"
  /\ sInput.kind = "null"
  /\ safeValidateRecipe(
       RemoveAt(sInput.doc, <<"ingredients", "0", "items", "0", "notes">>)).success

\* C21 as stated: a model output that is valid in every other respect and
\* in which an ingredient item has notes written as the bare token null is
\* recovered successfully: sanitize passes the null through, so that parsing
\* reads it as null, and validation accepts the item as one with no notes.
C21_AsStated ==
  ValidButForNotes =>
    /\ spc \in {"parsed", "normalized", "validated"} =>
         sParsed.parsed /\ Get(OnlyItem(sParsed.value), "notes") = JNull
    /\ spc \in {"normalized", "validated"} => ~sNormal.thrown
    /\ spc = "validated" =>
         /\ sValid.success
         /\ Get(OnlyItem(sValid.data), "notes") \in {JUndef, JNull}

====
